---------------------------- MODULE Spec2Model ----------------------------
(***************************************************************************)
(* dcrseeder: the address manager (Manager) and the crawler (testPeer,    *)
(* run).  Time is counted in whole hours since the zero time.Time, so     *)
(* that defaultStaleTimeout is 1 and pruneExpireTimeout is 8.             *)
(***************************************************************************)
EXTENDS Integers, Sequences, FiniteSets, TLC

(***************************************************************************)
(* Bounds of the model.                                                    *)
(***************************************************************************)
\* The number of times the wall clock advances in a behaviour.
MaxTicks == 2
\* The longest slice a client hands to AddAddresses in a step.
MaxBatch == 1
\* The most nodes a peers file holds when NewManager reads it.
MaxLoaded == 17

(***************************************************************************)
(* time.Time and time.Duration                                             *)
(***************************************************************************)
\* The zero time.Time (January 1, year 1).
ZeroTime == 0
\* The wall clock at process start, in hours since the zero time.
StartTime == 2023 * 8766
\* The largest time.Duration (2^63-1 ns), in hours.
MaxDuration == 106751 * 24 + 23

IsZero(t) == t = ZeroTime

\* t.Sub(u): the difference, saturated at the largest Duration.
Sub(t, u) == IF t - u > MaxDuration THEN MaxDuration
             ELSE IF t - u < -MaxDuration THEN -MaxDuration
             ELSE t - u

defaultMaxAddresses == 16
defaultStaleTimeout == 1
pruneExpireTimeout == 8

(***************************************************************************)
(* netip.Addr and netip.AddrPort.  An address is its family (z4 or z6)    *)
(* and its words: four bytes, or eight 16-bit groups.                      *)
(***************************************************************************)
V4(a, b, c, d) == [z |-> "z4", w |-> <<a, b, c, d>>]
V6(h) == [z |-> "z6", w |-> h]

Is4(addr) == addr.z = "z4"
Is6(addr) == addr.z = "z6"
Is4In6(addr) ==
    /\ Is6(addr)
    /\ \A i \in 1..5 : addr.w[i] = 0
    /\ addr.w[6] = 65535

\* Addr.Unmap: an IPv4-mapped IPv6 address becomes the IPv4 address.
Unmap(addr) ==
    IF Is4In6(addr)
    THEN V4(addr.w[7] \div 256, addr.w[7] % 256, addr.w[8] \div 256, addr.w[8] % 256)
    ELSE addr

WordBits(addr) == IF Is4(addr) THEN 8 ELSE 16

RECURSIVE Pow2(_)
Pow2(n) == IF n = 0 THEN 1 ELSE 2 * Pow2(n - 1)

\* Prefix.Contains: same family, and the first bits of the address are the
\* prefix's.
PrefixContains(prefix, addr) ==
    /\ addr.z = prefix.addr.z
    /\ LET wb == WordBits(addr)
           full == prefix.bits \div wb
           rest == prefix.bits % wb
       IN /\ \A i \in 1..full : addr.w[i] = prefix.addr.w[i]
          /\ rest # 0 =>
               addr.w[full + 1] \div Pow2(wb - rest)
                 = prefix.addr.w[full + 1] \div Pow2(wb - rest)

IsLoopback(addr) ==
    IF Is4(addr) THEN addr.w[1] = 127
    ELSE addr.w = <<0, 0, 0, 0, 0, 0, 0, 1>>

IsUnspecified(addr) ==
    IF Is4(addr) THEN addr.w = <<0, 0, 0, 0>>
    ELSE addr.w = <<0, 0, 0, 0, 0, 0, 0, 0>>

IsPrivate(addr) ==
    IF Is4(addr)
    THEN \/ addr.w[1] = 10
         \/ addr.w[1] = 172 /\ addr.w[2] \div 16 = 1
         \/ addr.w[1] = 192 /\ addr.w[2] = 168
    ELSE addr.w[1] \div 512 = 126

rfc3964Net == [addr |-> V6(<<8194, 0, 0, 0, 0, 0, 0, 0>>), bits |-> 16]
rfc4380Net == [addr |-> V6(<<8193, 0, 0, 0, 0, 0, 0, 0>>), bits |-> 32]
rfc4843Net == [addr |-> V6(<<8193, 16, 0, 0, 0, 0, 0, 0>>), bits |-> 28]
rfc4862Net == [addr |-> V6(<<65152, 0, 0, 0, 0, 0, 0, 0>>), bits |-> 64]
\* The Carrier-Grade NAT block taken as 100.64.0.0/16.
rfc6598NetShort == [addr |-> V4(100, 64, 0, 0), bits |-> 16]

rfc6598Net == [addr |-> V4(100, 64, 0, 0), bits |-> 10]

isRoutable(addr) ==
    /\ ~IsLoopback(addr)
    /\ ~IsUnspecified(addr)
    /\ ~IsPrivate(addr)
    /\ ~(\/ PrefixContains(rfc3964Net, addr)
         \/ PrefixContains(rfc4380Net, addr)
         \/ PrefixContains(rfc4843Net, addr)
         \/ PrefixContains(rfc4862Net, addr)
         \/ PrefixContains(rfc6598Net, addr))

AddrPortFrom(addr, port) == [addr |-> addr, port |-> port]

\* AddrPort.String: "a.b.c.d:port" or "[h:h:h:h:h:h:h:h]:port", as the
\* sequence of its fields.
AddrPortString(ap) ==
    IF Is4(ap.addr) THEN <<"ip4">> \o ap.addr.w \o <<ap.port>>
    ELSE <<"ip6">> \o ap.addr.w \o <<ap.port>>

(***************************************************************************)
(* The addresses the environment (peers, the seeder flag) hands in.        *)
(***************************************************************************)
\* 8.8.8.8:9108, [::ffff:8.8.8.8]:9108, [2001:4860:4860::8888]:9108 and
\* 10.0.0.1:9108
Google4 == AddrPortFrom(V4(8, 8, 8, 8), 9108)
Google4Mapped == AddrPortFrom(V6(<<0, 0, 0, 0, 0, 65535, 2056, 2056>>), 9108)
Google6 == AddrPortFrom(V6(<<8193, 18528, 18528, 0, 0, 0, 0, 34952>>), 9108)
Private4 == AddrPortFrom(V4(10, 0, 0, 1), 9108)

AddrPorts == {Google4, Google4Mapped, Google6, Private4}

\* The slices of at most len addresses.
SlicesUpTo(len) == UNION {[1..n -> AddrPorts] : n \in 0..len}

\* The slices a client hands to AddAddresses in a step; the calls of a
\* longer slice are those of its pieces, the clock standing still.
Batches == SlicesUpTo(MaxBatch)

\* What a peer reports in its version message: services and protocol version.
SFNodeNetwork == 1
SFNodeCF == 4
PeerReports == {[services |-> SFNodeNetwork, pver |-> 7],
                [services |-> SFNodeNetwork + SFNodeCF, pver |-> 8]}

\* a & b on unsigned integers.
RECURSIVE BitAnd(_, _)
BitAnd(a, b) ==
    IF a = 0 \/ b = 0 THEN 0
    ELSE (a % 2) * (b % 2) + 2 * BitAnd(a \div 2, b \div 2)

VARIABLES
    nodes,      \* Manager.nodes: key string -> Node
    now,        \* the wall clock, time.Now()
    ticks,      \* how many times the wall clock has advanced
    logged,     \* the line the last step wrote to the log, NoLine if none
    goods,      \* history: per stored key, the time of its first Good call and its latest Good call
    firstGood,  \* history: per key, the time of the first Good call that ever found it stored
    quit,       \* whether Manager.quit is closed
    stop,       \* where the call of Manager.Stop is
    handler,    \* the addressHandler goroutine: where it is, and what it has in progress
    disk,       \* the peers file and the temporary file savePeers writes
    mtx,        \* Manager.mtx, and the calls of the Manager's methods that take it step by step
    ctxDone,    \* whether the context of main has been cancelled
    crawl,      \* where crawler.run is
    probes      \* the testPeer goroutines of the batch, by address

hvars == <<quit, stop, handler, disk, mtx>>
mvars == <<nodes, now, ticks, logged, goods, firstGood, quit, stop, handler, disk,
          mtx>>
cvars == <<ctxDone, crawl, probes>>
vars == <<nodes, now, ticks, logged, goods, firstGood, quit, stop, handler, disk,
          mtx, ctxDone, crawl, probes>>

NoLine == [line |-> "none"]

\* Manager.mtx free, and no call followed step by step.
NoLock == [writers |-> {}, readers |-> {}, pc |-> <<>>, committed |-> <<>>,
           count |-> 0]

(***************************************************************************)
(* Manager                                                                 *)
(***************************************************************************)
\* A file that does not exist.
NoFile == [exists |-> FALSE]

\* The data directory without a peers file and without a temporary file.
NoPeersFile == [tmp |-> NoFile, peers |-> NoFile]

\* addressHandler as NewManager starts it: at the select, with no call in
\* progress and no final save made.
NewHandler == [at |-> "select", step |-> "none", active |-> <<>>, finals |-> 0]

NewNode(addrPort, t) ==
    [Services |-> 0, LastAttempt |-> ZeroTime, FirstSuccess |-> ZeroTime,
     LastSuccess |-> ZeroTime, LastSeen |-> t, ProtocolVersion |-> 0,
     IP |-> addrPort]

\* AddOne counting a refreshed entry like a new one.
AddOneCountsRefresh(st, addrPortT, t) ==
    LET addrPort == AddrPortFrom(Unmap(addrPortT.addr), addrPortT.port)
        addrStr == AddrPortString(addrPort)
    IN IF ~isRoutable(addrPort.addr) THEN st
       ELSE IF addrStr \in DOMAIN st.nodes
       THEN [st EXCEPT !.nodes[addrStr].LastSeen = t, !.count = @ + 1]
       ELSE [nodes |-> [k \in DOMAIN st.nodes \cup {addrStr} |->
                          IF k = addrStr THEN NewNode(addrPort, t) ELSE st.nodes[k]],
             count |-> st.count + 1]

\* AddOne storing and counting the addresses that are not routable too.
AddOneKeepsUnroutable(st, addrPortT, t) ==
    LET addrPort == AddrPortFrom(Unmap(addrPortT.addr), addrPortT.port)
        addrStr == AddrPortString(addrPort)
    IN IF addrStr \in DOMAIN st.nodes
       THEN [st EXCEPT !.nodes[addrStr].LastSeen = t]
       ELSE [nodes |-> [k \in DOMAIN st.nodes \cup {addrStr} |->
                          IF k = addrStr THEN NewNode(addrPort, t) ELSE st.nodes[k]],
             count |-> st.count + 1]

\* AddOne using the address as it came, IPv4-mapped or not.
AddOneKeepsMapped(st, addrPortT, t) ==
    LET addrPort == addrPortT
        addrStr == AddrPortString(addrPort)
    IN IF ~isRoutable(Unmap(addrPort.addr)) THEN st
       ELSE IF addrStr \in DOMAIN st.nodes
       THEN [st EXCEPT !.nodes[addrStr].LastSeen = t]
       ELSE [nodes |-> [k \in DOMAIN st.nodes \cup {addrStr} |->
                          IF k = addrStr THEN NewNode(addrPort, t) ELSE st.nodes[k]],
             count |-> st.count + 1]

\* AddOne storing a new Node over the one already stored.
AddOneReplacesStored(st, addrPortT, t) ==
    LET addrPort == AddrPortFrom(Unmap(addrPortT.addr), addrPortT.port)
        addrStr == AddrPortString(addrPort)
    IN IF ~isRoutable(addrPort.addr) THEN st
       ELSE IF addrStr \in DOMAIN st.nodes
       THEN [st EXCEPT !.nodes[addrStr] = NewNode(addrPort, t)]
       ELSE [nodes |-> [k \in DOMAIN st.nodes \cup {addrStr} |->
                          IF k = addrStr THEN NewNode(addrPort, t) ELSE st.nodes[k]],
             count |-> st.count + 1]

\* One iteration of the loop of AddAddresses on the pair (map, count).
AddOne(st, addrPortT, t) ==
    LET addrPort == AddrPortFrom(Unmap(addrPortT.addr), addrPortT.port)
        addrStr == AddrPortString(addrPort)
    IN IF ~isRoutable(addrPort.addr) THEN st
       ELSE IF addrStr \in DOMAIN st.nodes
       THEN [st EXCEPT !.nodes[addrStr].LastSeen = t]
       ELSE [nodes |-> [k \in DOMAIN st.nodes \cup {addrStr} |->
                          IF k = addrStr THEN NewNode(addrPort, t) ELSE st.nodes[k]],
             count |-> st.count + 1]

RECURSIVE AddLoop(_, _, _, _)
AddLoop(st, addrPorts, i, t) ==
    IF i > Len(addrPorts) THEN st
    ELSE AddLoop(AddOne(st, addrPorts[i], t), addrPorts, i + 1, t)

\* Manager.AddAddresses: the map afterwards and the returned count.
AddAddressesFn(n, addrPorts, t) == AddLoop([nodes |-> n, count |-> 0], addrPorts, 1, t)

\* Attempt creating the entry it does not find.
AttemptFnCreates(n, addrPort, t) ==
    LET k == AddrPortString(addrPort)
    IN [j \in DOMAIN n \cup {k} |->
          IF j = k THEN [(IF k \in DOMAIN n THEN n[k] ELSE NewNode(addrPort, t))
                           EXCEPT !.LastAttempt = t]
          ELSE n[j]]

\* Manager.Attempt
\* Attempt counting the attempt as a success too.
AttemptFnMarksSuccess(n, addrPort, t) ==
    LET k == AddrPortString(addrPort)
    IN IF k \in DOMAIN n
       THEN [n EXCEPT ![k].LastAttempt = t, ![k].LastSuccess = t]
       ELSE n

AttemptFn(n, addrPort, t) ==
    LET k == AddrPortString(addrPort)
    IN IF k \in DOMAIN n THEN [n EXCEPT ![k].LastAttempt = t] ELSE n

\* Good overwriting FirstSuccess on every call.
GoodFnOverwritesFirst(n, addrPort, services, pver, t) ==
    LET k == AddrPortString(addrPort)
    IN IF k \in DOMAIN n
       THEN [n EXCEPT ![k].ProtocolVersion = pver,
                      ![k].Services = services,
                      ![k].LastSuccess = t,
                      ![k].FirstSuccess = t]
       ELSE n

\* Good stamping the attempt as well.
GoodFnStampsAttempt(n, addrPort, services, pver, t) ==
    LET k == AddrPortString(addrPort)
    IN IF k \in DOMAIN n
       THEN [n EXCEPT ![k].ProtocolVersion = pver,
                      ![k].Services = services,
                      ![k].LastSuccess = t,
                      ![k].LastAttempt = t,
                      ![k].FirstSuccess = IF IsZero(@) THEN t ELSE @]
       ELSE n

\* Good creating the entry it does not find.
GoodFnCreates(n, addrPort, services, pver, t) ==
    LET k == AddrPortString(addrPort)
    IN [j \in DOMAIN n \cup {k} |->
          IF j = k
          THEN [(IF k \in DOMAIN n THEN n[k] ELSE NewNode(addrPort, t))
                   EXCEPT !.ProtocolVersion = pver,
                          !.Services = services,
                          !.LastSuccess = t,
                          !.FirstSuccess = IF IsZero(@) THEN t ELSE @]
          ELSE n[j]]

\* Manager.Good
GoodFn(n, addrPort, services, pver, t) ==
    LET k == AddrPortString(addrPort)
    IN IF k \in DOMAIN n
       THEN [n EXCEPT ![k].ProtocolVersion = pver,
                      ![k].Services = services,
                      ![k].LastSuccess = t,
                      ![k].FirstSuccess = IF IsZero(@) THEN t ELSE @]
       ELSE n

\* Pruned without the skip of the untried nodes.
PrunedUntriedToo(node, t) ==
    \/ Sub(t, node.LastSeen) > pruneExpireTimeout
    \/ Sub(t, node.LastSuccess) > pruneExpireTimeout

\* Pruned with >= for > in the comparison with the expiry timeout.
PrunedAtExpiry(node, t) ==
    /\ ~IsZero(node.LastAttempt)
    /\ \/ Sub(t, node.LastSeen) >= pruneExpireTimeout
       \/ Sub(t, node.LastSuccess) >= pruneExpireTimeout

\* Manager.prunePeers: whether the loop deletes the node.
Pruned(node, t) ==
    /\ ~IsZero(node.LastAttempt)
    /\ \/ Sub(t, node.LastSeen) > pruneExpireTimeout
       \/ Sub(t, node.LastSuccess) > pruneExpireTimeout

prunePeersFn(n, t) ==
    [k \in {j \in DOMAIN n : ~Pruned(n[j], t)} |-> n[k]]

Min(a, b) == IF a < b THEN a ELSE b

\* The ranges over a map going on after max entries.
ChosenUncapped(qualifying, max) == {qualifying}

\* The ranges over a map stop after max entries, in the map's (unspecified)
\* iteration order: any max of the qualifying keys, all of them if fewer.
Chosen(qualifying, max) ==
    {S \in SUBSET qualifying : Cardinality(S) = Min(max, Cardinality(qualifying))}

\* NeedsTest looking at LastAttempt only.
NeedsTestAttemptOnly(node, t) ==
    ~(Sub(t, node.LastAttempt) < defaultStaleTimeout)

\* NeedsTest passing a node over once it has been tried.
NeedsTestUntriedOnly(node, t) == IsZero(node.LastAttempt)

\* Manager.Addresses: whether the loop appends the node.
NeedsTest(node, t) ==
    ~(\/ Sub(t, node.LastSuccess) < defaultStaleTimeout
      \/ Sub(t, node.LastAttempt) < defaultStaleTimeout)

\* Manager.Addresses: the slices it can return, each as the set of its entries.
AddressesResults(n, t) ==
    {{n[k].IP : k \in S} :
        S \in Chosen({k \in DOMAIN n : NeedsTest(n[k], t)}, defaultMaxAddresses)}

\* IsGood without the check that the node is known to be stable.
IsGoodNoStableGate(node, t, ipversion, pver, services) ==
    /\ ~(IsZero(node.LastSuccess) \/ Sub(t, node.LastSuccess) >= defaultStaleTimeout)
    /\ ipversion = 4 => Is4(node.IP.addr)
    /\ ipversion = 6 => Is6(node.IP.addr)
    /\ ~(pver # 0 /\ node.ProtocolVersion < pver)
    /\ ~(services # 0 /\ BitAnd(node.Services, services) # services)

\* IsGood content with any one of the requested service bits.
IsGoodAnyServiceBit(node, t, ipversion, pver, services) ==
    /\ ~(IsZero(node.FirstSuccess) \/ Sub(t, node.FirstSuccess) < defaultStaleTimeout)
    /\ ~(IsZero(node.LastSuccess) \/ Sub(t, node.LastSuccess) >= defaultStaleTimeout)
    /\ ipversion = 4 => Is4(node.IP.addr)
    /\ ipversion = 6 => Is6(node.IP.addr)
    /\ ~(pver # 0 /\ node.ProtocolVersion < pver)
    /\ ~(services # 0 /\ BitAnd(node.Services, services) = 0)

\* IsGood without the switch on ipversion.
IsGoodAnyIPVersion(node, t, ipversion, pver, services) ==
    /\ ~(IsZero(node.FirstSuccess) \/ Sub(t, node.FirstSuccess) < defaultStaleTimeout)
    /\ ~(IsZero(node.LastSuccess) \/ Sub(t, node.LastSuccess) >= defaultStaleTimeout)
    /\ ~(pver # 0 /\ node.ProtocolVersion < pver)
    /\ ~(services # 0 /\ BitAnd(node.Services, services) # services)

\* IsGood without the check that the node seems to be online.
IsGoodStaleOnesToo(node, t, ipversion, pver, services) ==
    /\ ~(IsZero(node.FirstSuccess) \/ Sub(t, node.FirstSuccess) < defaultStaleTimeout)
    /\ ipversion = 4 => Is4(node.IP.addr)
    /\ ipversion = 6 => Is6(node.IP.addr)
    /\ ~(pver # 0 /\ node.ProtocolVersion < pver)
    /\ ~(services # 0 /\ BitAnd(node.Services, services) # services)

\* IsGood content with a first success of any age.
IsGoodFirstSuccessAnyAge(node, t, ipversion, pver, services) ==
    /\ ~IsZero(node.FirstSuccess)
    /\ ~(IsZero(node.LastSuccess) \/ Sub(t, node.LastSuccess) >= defaultStaleTimeout)
    /\ ipversion = 4 => Is4(node.IP.addr)
    /\ ipversion = 6 => Is6(node.IP.addr)
    /\ ~(pver # 0 /\ node.ProtocolVersion < pver)
    /\ ~(services # 0 /\ BitAnd(node.Services, services) # services)

\* Manager.GoodAddresses: whether the loop appends the node.
IsGood(node, t, ipversion, pver, services) ==
    /\ ~(IsZero(node.FirstSuccess) \/ Sub(t, node.FirstSuccess) < defaultStaleTimeout)
    /\ ~(IsZero(node.LastSuccess) \/ Sub(t, node.LastSuccess) >= defaultStaleTimeout)
    /\ ipversion = 4 => Is4(node.IP.addr)
    /\ ipversion = 6 => Is6(node.IP.addr)
    /\ ~(pver # 0 /\ node.ProtocolVersion < pver)
    /\ ~(services # 0 /\ BitAnd(node.Services, services) # services)

ApiNode(node) ==
    [Host |-> AddrPortString(node.IP), Services |-> node.Services,
     ProtocolVersion |-> node.ProtocolVersion]

\* Manager.GoodAddresses: the slices it can return, each as the set of its entries.
GoodAddressesResults(n, t, ipversion, pver, services) ==
    {{ApiNode(n[k]) : k \in S} :
        S \in Chosen({k \in DOMAIN n : IsGood(n[k], t, ipversion, pver, services)},
                     defaultMaxAddresses)}

(***************************************************************************)
(* The address manager under the calls of its clients.                     *)
(***************************************************************************)
\* The history of Good calls, kept for the stored keys only.
GoodsAfterGood(n, addrPort, services, pver, t) ==
    LET k == AddrPortString(addrPort)
        call == [t |-> t, services |-> services, pver |-> pver]
    IN IF k \notin DOMAIN n THEN goods
       ELSE [j \in DOMAIN goods \cup {k} |->
               IF j # k THEN goods[j]
               ELSE IF k \in DOMAIN goods THEN [goods[k] EXCEPT !.last = call]
               ELSE [first |-> t, last |-> call]]

\* The first Good call that found the key stored, kept for good.
FirstGoodAfterGood(n, addrPort, t) ==
    LET k == AddrPortString(addrPort)
    IN IF k \notin DOMAIN n \/ k \in DOMAIN firstGood THEN firstGood
       ELSE [j \in DOMAIN firstGood \cup {k} |-> IF j = k THEN t ELSE firstGood[j]]

AddAddresses(addrPorts) ==
    /\ nodes' = AddAddressesFn(nodes, addrPorts, now).nodes
    /\ logged' = NoLine
    /\ UNCHANGED <<now, ticks, goods, firstGood, hvars>>

Attempt(addrPort) ==
    /\ nodes' = AttemptFn(nodes, addrPort, now)
    /\ logged' = NoLine
    /\ UNCHANGED <<now, ticks, goods, firstGood, hvars>>

Good(addrPort, services, pver) ==
    /\ nodes' = GoodFn(nodes, addrPort, services, pver, now)
    /\ goods' = GoodsAfterGood(nodes, addrPort, services, pver, now)
    /\ firstGood' = FirstGoodAfterGood(nodes, addrPort, now)
    /\ logged' = NoLine
    /\ UNCHANGED <<now, ticks, hvars>>

\* Manager.prunePeers, whoever calls it.
PruneRegistry ==
    /\ nodes' = prunePeersFn(nodes, now)
    /\ logged' = [line |-> "Pruned",
                  count |-> Cardinality(DOMAIN nodes) - Cardinality(DOMAIN nodes'),
                  remaining |-> Cardinality(DOMAIN nodes')]
    /\ goods' = [k \in DOMAIN goods \cap DOMAIN nodes' |-> goods[k]]
    /\ UNCHANGED <<now, ticks, firstGood>>

\* addressHandler calls prunePeers, at any time.
prunePeers == PruneRegistry /\ UNCHANGED hvars

\* The wall clock is read at instants that are, in turn, one stale timeout
\* and one expiry timeout apart: the ages 0, 1, 8 and 9 hours all occur.
Advance(i) == IF i % 2 = 0 THEN defaultStaleTimeout ELSE pruneExpireTimeout

\* The wall clock advances.
Tick ==
    /\ ticks < MaxTicks
    /\ now' = now + Advance(ticks)
    /\ ticks' = ticks + 1
    /\ logged' = NoLine
    /\ UNCHANGED <<nodes, goods, firstGood, hvars>>

\* The manager as NewManager leaves it (no peers file), before main adds
\* the seeder and starts the crawler.
Init ==
    /\ nodes = <<>>
    /\ now = StartTime
    /\ ticks = 0
    /\ logged = NoLine
    /\ goods = <<>>
    /\ firstGood = <<>>
    /\ quit = FALSE
    /\ stop = "idle"
    /\ handler = NewHandler
    /\ disk = NoPeersFile
    /\ mtx = NoLock
    /\ ctxDone = FALSE
    /\ crawl = "top"
    /\ probes = <<>>

Next ==
    \/ \E b \in Batches : AddAddresses(b) /\ UNCHANGED cvars
    \/ \E a \in AddrPorts : Attempt(a) /\ UNCHANGED cvars
    \/ \E a \in AddrPorts, r \in PeerReports :
          Good(a, r.services, r.pver) /\ UNCHANGED cvars
    \/ prunePeers /\ UNCHANGED cvars
    \/ Tick /\ UNCHANGED cvars

Spec == Init /\ [][Next]_vars

(***************************************************************************)
(* The address manager started on a peers file: NewManager reads the nodes *)
(* an earlier run saved, and the crawler and the pruner work on them.      *)
(***************************************************************************)
\* The i-th peer of the file.
Host(i) == AddrPortFrom(V4(8, 8, 8, i), 9108)

\* The files: of nodes seen two hours ago and never tried, or of nodes
\* tried and first good two hours ago and good again just before the save.
FileKinds == {"untried", "served"}

LoadedNode(i, kind) ==
    IF kind = "untried" THEN NewNode(Host(i), StartTime - 2)
    ELSE [NewNode(Host(i), StartTime - 2) EXCEPT
            !.Services = SFNodeNetwork, !.ProtocolVersion = 8,
            !.LastAttempt = StartTime - 2, !.FirstSuccess = StartTime - 2,
            !.LastSuccess = StartTime]

\* deserializePeers: the map decoded from a file of n nodes.
LoadedNodes(n, kind) ==
    [k \in {AddrPortString(Host(i)) : i \in 1..n} |->
        LoadedNode(CHOOSE i \in 1..n : AddrPortString(Host(i)) = k, kind)]

\* NewManager has read a peers file with about defaultMaxAddresses nodes.
InitLoaded ==
    /\ \E n \in (MaxLoaded - 2)..MaxLoaded, kind \in FileKinds :
          nodes = LoadedNodes(n, kind)
    /\ now = StartTime
    /\ ticks = 0
    /\ logged = NoLine
    /\ goods = <<>>
    /\ firstGood = <<>>
    /\ quit = FALSE
    /\ stop = "idle"
    /\ handler = NewHandler
    /\ disk = NoPeersFile
    /\ mtx = NoLock
    /\ ctxDone = FALSE
    /\ crawl = "top"
    /\ probes = <<>>

\* The probes of the first peer of the file, the pruner and the clock.
NextLoaded ==
    \/ AddAddresses(<<Host(1)>>) /\ UNCHANGED cvars
    \/ Attempt(Host(1)) /\ UNCHANGED cvars
    \/ Good(Host(1), SFNodeNetwork + SFNodeCF, 8) /\ UNCHANGED cvars
    \/ prunePeers /\ UNCHANGED cvars
    \/ Tick /\ UNCHANGED cvars

SpecLoaded == InitLoaded /\ [][NextLoaded]_vars

(***************************************************************************)
(* The crawler: crawler.run and its testPeer goroutines, with the address  *)
(* manager they call, the pruner and the wall clock.                        *)
(***************************************************************************)
\* The addresses given with the -s flag.
Seeders == {Google4, Private4}

\* The address lists a peer answers getaddr with: an address in its
\* IPv4-mapped form, a new one and one that is not routable.
PeerLists == {<<Google4Mapped, Google6, Private4>>}

\* What the peer at ip reports in its version message.
ReportOf(ip) ==
    IF Is4(ip.addr) THEN [services |-> SFNodeNetwork, pver |-> 7]
    ELSE [services |-> SFNodeNetwork + SFNodeCF, pver |-> 8]

\* A testPeer goroutine as the go statement starts it.  pc is where it is,
\* conn the state of its connection (none, open, closed), verack and onaddr
\* what the channels buffer; attempted is history: whether it has called
\* Attempt.
NewProbe ==
    [pc |-> "Idle", conn |-> "none", verack |-> 0, onaddr |-> 0,
     good |-> FALSE, getaddr |-> FALSE, attempted |-> FALSE]

\* The batch crawler.run got from Addresses: a goroutine for each address.
ips == DOMAIN probes

Running(ip) == ip \in DOMAIN probes /\ probes[ip].pc # "Done"

ReturnSkipsDisconnect(conn) == "Attempting"

\* The return statement: the deferred calls run, Disconnect first if it was
\* deferred, then (cancel and) Attempt.
ReturnTo(conn) == IF conn = "open" THEN "Disconnecting" ELSE "Attempting"

\* crawler.run going on at the top of the loop whatever ctx.Err is.
CrawlCheckCtxIgnored ==
    /\ crawl = "top"
    /\ crawl' = "checked"
    /\ UNCHANGED <<mvars, ctxDone, probes>>

\* crawler.run: the check of ctx.Err at the top of the loop.
CrawlCheckCtx ==
    /\ crawl = "top"
    /\ crawl' = IF ctxDone THEN "returned" ELSE "checked"
    /\ UNCHANGED <<mvars, ctxDone, probes>>

\* crawler.run going round the loop at once when Addresses returns nothing.
CrawlAddressesNoSleep ==
    /\ crawl = "checked"
    /\ \E R \in AddressesResults(nodes, now) :
          /\ crawl' = IF R = {} THEN "top" ELSE "waiting"
          /\ probes' = [ip \in R \cup DOMAIN probes |->
                           IF ip \in R THEN NewProbe ELSE probes[ip]]
    /\ UNCHANGED <<mvars, ctxDone>>

\* crawler.run: Addresses; with no address it sleeps, otherwise it starts a
\* testPeer goroutine for each.
CrawlAddresses ==
    /\ crawl = "checked"
    /\ \E R \in AddressesResults(nodes, now) :
          /\ crawl' = IF R = {} THEN "sleeping" ELSE "waiting"
          /\ probes' = [ip \in R \cup DOMAIN probes |->
                           IF ip \in R THEN NewProbe ELSE probes[ip]]
    /\ UNCHANGED <<mvars, ctxDone>>

\* crawler.run: the sleep ends after defaultAddressTimeout.
CrawlWake ==
    /\ crawl = "sleeping"
    /\ crawl' = "top"
    /\ UNCHANGED <<mvars, ctxDone, probes>>

\* crawler.run: the sleep ends with the context.
CrawlSleepCancelled ==
    /\ crawl = "sleeping"
    /\ ctxDone
    /\ crawl' = "returned"
    /\ UNCHANGED <<mvars, ctxDone, probes>>

\* wg.Wait can return once the counter is zero: every goroutine of the
\* batch has called wg.Done.
WaitGroupDoneOne(p) == \E ip \in DOMAIN p : p[ip].pc = "Done"

WaitGroupDone(p) == \A ip \in DOMAIN p : p[ip].pc = "Done"

\* wg.Wait returning at once, as if wg.Add had not been called.
CrawlWaitNoBarrier ==
    /\ crawl = "waiting"
    /\ crawl' = "top"
    /\ probes' = [ip \in {i \in DOMAIN probes : probes[i].pc # "Done"} |-> probes[ip]]
    /\ UNCHANGED <<mvars, ctxDone>>

\* crawler.run: wg.Wait returns; the goroutines that have ended are gone.
CrawlWaitDone ==
    /\ crawl = "waiting"
    /\ WaitGroupDone(probes)
    /\ crawl' = "top"
    /\ probes' = [ip \in {i \in DOMAIN probes : probes[i].pc # "Done"} |-> probes[ip]]
    /\ UNCHANGED <<mvars, ctxDone>>

\* testPeer stamping the attempt before the dial.
ProbeNewPeerAttempts(ip, ok) ==
    /\ Running(ip)
    /\ probes[ip].pc = "Idle"
    /\ Attempt(ip)
    /\ probes' = IF ok THEN [probes EXCEPT ![ip].pc = "Dialing"]
                 ELSE [probes EXCEPT ![ip].pc = "Done"]
    /\ UNCHANGED <<ctxDone, crawl>>

\* testPeer: peer.NewOutboundPeer; on an error it returns.
ProbeNewPeer(ip, ok) ==
    /\ Running(ip)
    /\ probes[ip].pc = "Idle"
    /\ probes' = IF ok THEN [probes EXCEPT ![ip].pc = "Dialing"]
                 ELSE [probes EXCEPT ![ip].pc = "Done"]
    /\ UNCHANGED <<mvars, ctxDone, crawl>>

\* testPeer: DialContext returns a connection, which is associated.
ProbeDialed(ip) ==
    /\ Running(ip)
    /\ probes[ip].pc = "Dialing"
    /\ ~ctxDone
    /\ probes' = [probes EXCEPT ![ip].pc = "Handshaking", ![ip].conn = "open"]
    /\ UNCHANGED <<mvars, ctxDone, crawl>>

\* A failed dial cancelling the context of the crawler, not only its own.
ProbeDialFailedCancelsAll(ip) ==
    /\ Running(ip)
    /\ probes[ip].pc = "Dialing"
    /\ probes' = [probes EXCEPT ![ip].pc = ReturnTo(probes[ip].conn)]
    /\ ctxDone' = TRUE
    /\ UNCHANGED <<mvars, crawl>>

\* testPeer: DialContext fails (refused, defaultNodeTimeout, cancelled).
ProbeDialFailed(ip) ==
    /\ Running(ip)
    /\ probes[ip].pc = "Dialing"
    /\ probes' = [probes EXCEPT ![ip].pc = ReturnTo(probes[ip].conn)]
    /\ UNCHANGED <<mvars, ctxDone, crawl>>

\* The OnVerAck listener, called by the peer's goroutine during the handshake.
OnVerAck(ip) ==
    /\ Running(ip)
    /\ probes[ip].pc = "Handshaking"
    /\ probes[ip].conn = "open"
    /\ probes[ip].verack = 0
    /\ probes' = [probes EXCEPT ![ip].verack = 1]
    /\ UNCHANGED <<mvars, ctxDone, crawl>>

\* The OnAddr listener, called by the peer's goroutine for an addr message:
\* AddAddresses, then the send on onaddr.  The peer sends an addr message
\* only when the channel has room for the send.
OnAddr(ip, list) ==
    /\ Running(ip)
    /\ probes[ip].conn = "open"
    /\ probes[ip].onaddr = 0
    /\ AddAddresses(list)
    /\ probes' = [probes EXCEPT ![ip].onaddr = 1]
    /\ UNCHANGED <<ctxDone, crawl>>

\* testPeer: the first select takes verack: Good with what the peer reported,
\* and getaddr is queued.
ProbeVerAck(ip, r) ==
    /\ Running(ip)
    /\ probes[ip].pc = "Handshaking"
    /\ probes[ip].verack = 1
    /\ Good(ip, r.services, r.pver)
    /\ probes' = [probes EXCEPT ![ip].pc = "AwaitingAddresses", ![ip].verack = 0,
                                ![ip].good = TRUE, ![ip].getaddr = TRUE]
    /\ UNCHANGED <<ctxDone, crawl>>

\* The timeout of the first select marking the peer good all the same.
ProbeVerAckTimeoutGood(ip) ==
    /\ Running(ip)
    /\ probes[ip].pc = "Handshaking"
    /\ Good(ip, ReportOf(ip).services, ReportOf(ip).pver)
    /\ probes' = [probes EXCEPT ![ip].pc = ReturnTo(probes[ip].conn),
                                ![ip].verack = 0]
    /\ UNCHANGED <<ctxDone, crawl>>

\* testPeer: the first select takes time.After(defaultNodeTimeout); nothing
\* reads the verack channel after the return.
ProbeVerAckTimeout(ip) ==
    /\ Running(ip)
    /\ probes[ip].pc = "Handshaking"
    /\ probes' = [probes EXCEPT ![ip].pc = ReturnTo(probes[ip].conn),
                                ![ip].verack = 0]
    /\ UNCHANGED <<mvars, ctxDone, crawl>>

\* testPeer: the first select takes ctx.Done.
ProbeVerAckCancelled(ip) ==
    /\ Running(ip)
    /\ probes[ip].pc = "Handshaking"
    /\ ctxDone
    /\ probes' = [probes EXCEPT ![ip].pc = ReturnTo(probes[ip].conn),
                                ![ip].verack = 0]
    /\ UNCHANGED <<mvars, ctxDone, crawl>>

\* testPeer: the second select takes onaddr.
ProbeAddr(ip) ==
    /\ Running(ip)
    /\ probes[ip].pc = "AwaitingAddresses"
    /\ probes[ip].onaddr = 1
    /\ probes' = [probes EXCEPT ![ip].pc = ReturnTo(probes[ip].conn),
                                ![ip].onaddr = 0]
    /\ UNCHANGED <<mvars, ctxDone, crawl>>

ProbeAddrTimeoutRetries(ip) ==
    /\ Running(ip)
    /\ probes[ip].pc = "AwaitingAddresses"
    /\ probes' = [probes EXCEPT ![ip].pc = "Handshaking"]
    /\ UNCHANGED <<mvars, ctxDone, crawl>>

\* testPeer: the second select takes time.After(defaultNodeTimeout).
ProbeAddrTimeout(ip) ==
    /\ Running(ip)
    /\ probes[ip].pc = "AwaitingAddresses"
    /\ probes' = [probes EXCEPT ![ip].pc = ReturnTo(probes[ip].conn)]
    /\ UNCHANGED <<mvars, ctxDone, crawl>>

\* testPeer: the second select takes ctx.Done.
ProbeAddrCancelled(ip) ==
    /\ Running(ip)
    /\ probes[ip].pc = "AwaitingAddresses"
    /\ ctxDone
    /\ probes' = [probes EXCEPT ![ip].pc = ReturnTo(probes[ip].conn)]
    /\ UNCHANGED <<mvars, ctxDone, crawl>>

\* testPeer: the deferred p.Disconnect.
ProbeDisconnect(ip) ==
    /\ Running(ip)
    /\ probes[ip].pc = "Disconnecting"
    /\ probes' = [probes EXCEPT ![ip].pc = "Attempting", ![ip].conn = "closed"]
    /\ UNCHANGED <<mvars, ctxDone, crawl>>

\* testPeer: the deferred Attempt, and the goroutine's wg.Done; the channels
\* go with the goroutine.
ProbeAttempt(ip) ==
    /\ Running(ip)
    /\ probes[ip].pc = "Attempting"
    /\ Attempt(ip)
    /\ probes' = [probes EXCEPT ![ip].pc = "Done", ![ip].attempted = TRUE,
                                ![ip].verack = 0, ![ip].onaddr = 0,
                                ![ip].good = FALSE, ![ip].getaddr = FALSE]
    /\ UNCHANGED <<ctxDone, crawl>>

\* The steps of the testPeer goroutine of ip.
ProbeStep(ip) ==
    \/ \E ok \in BOOLEAN : ProbeNewPeer(ip, ok)
    \/ ProbeDialed(ip)
    \/ ProbeDialFailed(ip)
    \/ ProbeVerAck(ip, ReportOf(ip))
    \/ ProbeVerAckTimeout(ip)
    \/ ProbeVerAckCancelled(ip)
    \/ ProbeAddr(ip)
    \/ ProbeAddrTimeout(ip)
    \/ ProbeAddrCancelled(ip)
    \/ ProbeDisconnect(ip)
    \/ ProbeAttempt(ip)

\* The steps of crawler.run.
CrawlStep ==
    \/ CrawlCheckCtx
    \/ CrawlAddresses
    \/ CrawlWake
    \/ CrawlSleepCancelled
    \/ CrawlWaitDone

\* shutdownListener: the context is cancelled.
Cancel ==
    /\ ~ctxDone
    /\ ctxDone' = TRUE
    /\ UNCHANGED <<mvars, crawl, probes>>

\* main has added the seeder and started the crawler.
InitCrawl ==
    /\ \E seeder \in Seeders : nodes = AddAddressesFn(<<>>, <<seeder>>, StartTime).nodes
    /\ now = StartTime
    /\ ticks = 0
    /\ logged = NoLine
    /\ goods = <<>>
    /\ firstGood = <<>>
    /\ quit = FALSE
    /\ stop = "idle"
    /\ handler = NewHandler
    /\ disk = NoPeersFile
    /\ mtx = NoLock
    /\ ctxDone = FALSE
    /\ crawl = "top"
    /\ probes = <<>>

NextCrawl ==
    \/ CrawlStep
    \/ \E ip \in AddrPorts : ProbeStep(ip)
    \/ \E ip \in AddrPorts : OnVerAck(ip)
    \/ \E ip \in AddrPorts, list \in PeerLists : OnAddr(ip, list)
    \/ Cancel
    \/ prunePeers /\ UNCHANGED cvars
    \/ Tick /\ UNCHANGED cvars

SpecCrawl == InitCrawl /\ [][NextCrawl]_vars

\* The Go scheduler runs every goroutine that can run: a testPeer goroutine
\* that can take a step takes one, and so does crawler.run.
FairCrawl ==
    /\ \A ip \in AddrPorts : WF_vars(ProbeStep(ip))
    /\ WF_vars(CrawlStep)

SpecCrawlFair == SpecCrawl /\ FairCrawl

(***************************************************************************)
(* The maintenance of the address manager: addressHandler with prunePeers  *)
(* and savePeers, Manager.Stop, and the clients of the registry.           *)
(***************************************************************************)
\* A file that was created and not, or not wholly, written.
PartialFile == [exists |-> TRUE, complete |-> FALSE, nodes |-> <<>>]

\* Time.MarshalJSON writing the date without the time of day.
MarshalTimeDateOnly(t) == <<t \div 24, 0>>

\* Time.MarshalJSON: the RFC 3339 text, as its date and its time of day;
\* the zero time is a text like any other.
MarshalTime(t) == <<t \div 24, t % 24>>

\* Time.UnmarshalJSON: the instant the text names.
UnmarshalTime(text) == text[1] * 24 + text[2]

\* netip.ParseAddrPort of the text AddrPort.String wrote.
ParseAddrPort(text) ==
    IF text[1] = "ip4"
    THEN AddrPortFrom(V4(text[2], text[3], text[4], text[5]), text[6])
    ELSE AddrPortFrom(V6(SubSeq(text, 2, 9)), text[10])

\* json.Encoder.Encode of a Node: the object of its seven fields.
EncodeNode(node) ==
    [Services |-> node.Services,
     LastAttempt |-> MarshalTime(node.LastAttempt),
     FirstSuccess |-> MarshalTime(node.FirstSuccess),
     LastSuccess |-> MarshalTime(node.LastSuccess),
     LastSeen |-> MarshalTime(node.LastSeen),
     ProtocolVersion |-> node.ProtocolVersion,
     IP |-> AddrPortString(node.IP)]

\* json.Decoder.Decode into a Node.
DecodeNode(object) ==
    [Services |-> object.Services,
     LastAttempt |-> UnmarshalTime(object.LastAttempt),
     FirstSuccess |-> UnmarshalTime(object.FirstSuccess),
     LastSuccess |-> UnmarshalTime(object.LastSuccess),
     LastSeen |-> UnmarshalTime(object.LastSeen),
     ProtocolVersion |-> object.ProtocolVersion,
     IP |-> ParseAddrPort(object.IP)]

\* enc.Encode(&m.nodes): the object of the encoded nodes under their keys.
EncodeNodes(n) == [k \in DOMAIN n |-> EncodeNode(n[k])]

\* dec.Decode(&nodes): the map of the decoded nodes under the file's keys.
DecodeNodes(object) == [k \in DOMAIN object |-> DecodeNode(object[k])]

\* A file holding the whole encoding of the map n.
SnapshotFile(n) == [exists |-> TRUE, complete |-> TRUE, nodes |-> EncodeNodes(n)]

\* savePeers writing the peers file in place.
WrittenFileIsPeersFile == "peers"

\* The file savePeers writes: tmpfile, m.peersFile + ".new".
WrittenFile == "tmp"

\* savePeers holds mtx.RLock from its first line to its return.
ReadLocked == handler.step # "none"

\* The goroutine is at the select when no call of it is in progress.
SelectingWhileBusy(h) == h.at \in {"select", "prune", "dump"}

Selecting(h) == h.at = "select"

Front(q) == SubSeq(q, 1, Len(q) - 1)

\* The call of savePeers: the read lock is taken.
SaveCalled(h, kind) ==
    [h EXCEPT !.at = kind, !.step = "create", !.active = Append(@, kind)]

\* savePeers returns: to the select, or, from the final save, out of
\* addressHandler, whose deferred wg.Done runs.
SaveReturned(h) ==
    [h EXCEPT !.at = IF h.at = "final" THEN "returned" ELSE "select",
              !.step = "none", !.active = Front(@)]

\* break out without the save after the loop.
AfterBreakReturns(h) == [h EXCEPT !.at = "returned"]

\* addressHandler after break out: the final savePeers.
AfterBreak(h) == [SaveCalled(h, "final") EXCEPT !.finals = @ + 1]

\* addressHandler: the select takes dumpAddressTicker.C.
HandlerTakeDump ==
    /\ Selecting(handler)
    /\ handler' = SaveCalled(handler, "dump")
    /\ logged' = NoLine
    /\ UNCHANGED <<nodes, now, ticks, goods, firstGood, quit, stop, disk>>

\* addressHandler: the select takes pruneAddressTicker.C.
HandlerTakePrune ==
    /\ Selecting(handler)
    /\ handler' = [handler EXCEPT !.at = "prune", !.active = Append(@, "prune")]
    /\ logged' = NoLine
    /\ UNCHANGED <<nodes, now, ticks, goods, firstGood, quit, stop, disk>>

\* addressHandler: the select takes m.quit, which is closed.
HandlerTakeQuit ==
    /\ Selecting(handler)
    /\ quit
    /\ handler' = AfterBreak(handler)
    /\ logged' = NoLine
    /\ UNCHANGED <<nodes, now, ticks, goods, firstGood, quit, stop, disk>>

\* addressHandler: prunePeers, under mtx.Lock.
HandlerPrune ==
    /\ handler.at = "prune"
    /\ ~ReadLocked
    /\ PruneRegistry
    /\ handler' = [handler EXCEPT !.at = "select", !.active = Front(@)]
    /\ UNCHANGED <<quit, stop, disk>>

\* savePeers: os.Create(tmpfile), which truncates the file.
SaveCreate(ok) ==
    /\ handler.step = "create"
    /\ IF ok
       THEN /\ disk' = [disk EXCEPT ![WrittenFile] = PartialFile]
            /\ handler' = [handler EXCEPT !.step = "encode"]
            /\ logged' = NoLine
       ELSE /\ disk' = disk
            /\ handler' = SaveReturned(handler)
            /\ logged' = [line |-> "Error opening file"]
    /\ UNCHANGED <<nodes, now, ticks, goods, firstGood, quit, stop>>

\* savePeers: enc.Encode(&m.nodes); on an error the file is closed.
SaveEncode(ok) ==
    /\ handler.step = "encode"
    /\ IF ok
       THEN /\ disk' = [disk EXCEPT ![WrittenFile] = SnapshotFile(nodes)]
            /\ handler' = [handler EXCEPT !.step = "close"]
            /\ logged' = NoLine
       ELSE /\ disk' = [disk EXCEPT ![WrittenFile] = PartialFile]
            /\ handler' = SaveReturned(handler)
            /\ logged' = [line |-> "Failed to encode file"]
    /\ UNCHANGED <<nodes, now, ticks, goods, firstGood, quit, stop>>

\* savePeers: w.Close().
SaveClose(ok) ==
    /\ handler.step = "close"
    /\ IF ok
       THEN /\ handler' = [handler EXCEPT !.step = "rename"]
            /\ logged' = NoLine
       ELSE /\ handler' = SaveReturned(handler)
            /\ logged' = [line |-> "Error closing file"]
    /\ UNCHANGED <<nodes, now, ticks, goods, firstGood, quit, stop, disk>>

\* savePeers: os.Rename(tmpfile, m.peersFile), and the return.
SaveRename(ok) ==
    /\ handler.step = "rename"
    /\ IF ok
       THEN /\ disk' = [[disk EXCEPT ![WrittenFile] = NoFile]
                          EXCEPT !.peers = disk[WrittenFile]]
            /\ logged' = [line |-> "nodes saved", count |-> Cardinality(DOMAIN nodes)]
       ELSE /\ disk' = disk
            /\ logged' = [line |-> "Error writing file"]
    /\ handler' = SaveReturned(handler)
    /\ UNCHANGED <<nodes, now, ticks, goods, firstGood, quit, stop>>

\* The steps of the addressHandler goroutine.
HandlerStep ==
    \/ HandlerTakeDump
    \/ HandlerTakePrune
    \/ HandlerTakeQuit
    \/ HandlerPrune
    \/ \E ok \in BOOLEAN : SaveCreate(ok)
    \/ \E ok \in BOOLEAN : SaveEncode(ok)
    \/ \E ok \in BOOLEAN : SaveClose(ok)
    \/ \E ok \in BOOLEAN : SaveRename(ok)

\* Manager.Stop: close(m.quit).
StopClose ==
    /\ stop = "idle"
    /\ quit' = TRUE
    /\ stop' = "waiting"
    /\ logged' = NoLine
    /\ UNCHANGED <<nodes, now, ticks, goods, firstGood, handler, disk>>

\* Manager.Stop: m.wg.Wait returns once addressHandler has, and Stop does.
StopReturn ==
    /\ stop = "waiting"
    /\ handler.at = "returned"
    /\ stop' = "done"
    /\ logged' = [line |-> "Address manager done."]
    /\ UNCHANGED <<nodes, now, ticks, goods, firstGood, quit, handler, disk>>

\* The crawler's calls that write the registry wait for mtx.Lock while
\* savePeers holds the read lock.
ClientStep ==
    /\ ~ReadLocked
    /\ \/ \E seeder \in Seeders : AddAddresses(<<seeder>>)
       \/ Attempt(Google4)

NextMaintenance ==
    \/ HandlerStep /\ UNCHANGED <<cvars, mtx>>
    \/ StopClose /\ UNCHANGED <<cvars, mtx>>
    \/ StopReturn /\ UNCHANGED <<cvars, mtx>>
    \/ ClientStep /\ UNCHANGED cvars
    \/ Tick /\ UNCHANGED cvars

SpecMaintenance == Init /\ [][NextMaintenance]_vars

(***************************************************************************)
(* The start of the process: NewManager reads what an earlier process left *)
(* in the peers file.                                                      *)
(***************************************************************************)
\* A file cut short after the encoding of the nodes of n.
CutFile(n) == [exists |-> TRUE, complete |-> FALSE, nodes |-> EncodeNodes(n)]

\* A node of the file: good two hours ago and at the save, or one with
\* no timestamp set at all.
StartNode(i) ==
    IF i = 1 THEN LoadedNode(i, "served")
    ELSE NewNode(Host(i), ZeroTime)

StartRegistry(S) ==
    [k \in {AddrPortString(Host(i)) : i \in S} |->
        StartNode(CHOOSE i \in S : AddrPortString(Host(i)) = k)]

\* The peers file NewManager finds: none, one cut short, or the snapshot
\* of a registry.
StartFiles ==
    {NoFile, PartialFile, CutFile(StartRegistry({1}))}
        \cup {SnapshotFile(StartRegistry(S)) : S \in SUBSET {1, 2}}

\* The Manager before NewManager has made it, and after NewManager failed.
Unmade == [NewHandler EXCEPT !.at = "new"]
Failed == [NewHandler EXCEPT !.at = "failed"]

\* deserializePeers: decoding fails on a file that is not a whole JSON
\* value.
Decodes(file) == file.exists /\ file.complete

\* deserializePeers assigning what the decoder had filled in at the error.
LoadedKeepsPartial(file) ==
    IF file.exists THEN DecodeNodes(file.nodes) ELSE <<>>

\* m.nodes after deserializePeers: the decoded map, or, with no file or
\* after an error, the empty map NewManager made.
Loaded(file) ==
    IF Decodes(file) THEN DecodeNodes(file.nodes) ELSE <<>>

\* NewManager: os.MkdirAll, the empty map, deserializePeers, the removal of
\* a file it could not read, and the start of addressHandler.
NewManager(mkdir, remove) ==
    /\ handler.at = "new"
    /\ IF ~mkdir
       THEN /\ handler' = Failed
            /\ logged' = NoLine
            /\ UNCHANGED <<nodes, disk>>
       ELSE /\ handler' = NewHandler
            /\ nodes' = Loaded(disk.peers)
            /\ IF ~disk.peers.exists
               THEN /\ logged' = NoLine
                    /\ disk' = disk
               ELSE IF Decodes(disk.peers)
               THEN /\ logged' = [line |-> "nodes loaded",
                                  count |-> Cardinality(DOMAIN nodes')]
                    /\ disk' = disk
               ELSE IF remove
               THEN /\ disk' = [disk EXCEPT !.peers = NoFile]
                    /\ logged' = [line |-> "Failed to parse file"]
               ELSE /\ disk' = disk
                    /\ logged' = [line |-> "Failed to remove corrupt peers file"]
    /\ goods' = <<>>
    /\ firstGood' = <<>>
    /\ UNCHANGED <<now, ticks, quit, stop>>

\* The process ends after Stop has returned, and the next one starts; its
\* memory is not the old one's, which NewManager replaces.
Restart ==
    /\ stop = "done"
    /\ handler' = Unmade
    /\ quit' = FALSE
    /\ stop' = "idle"
    /\ logged' = NoLine
    /\ UNCHANGED <<nodes, now, ticks, goods, firstGood, disk>>

Made == handler.at \notin {"new", "failed"}

InitStartup ==
    /\ nodes = <<>>
    /\ now = StartTime
    /\ ticks = 0
    /\ logged = NoLine
    /\ goods = <<>>
    /\ firstGood = <<>>
    /\ quit = FALSE
    /\ stop = "idle"
    /\ handler = Unmade
    /\ \E file \in StartFiles : disk = [tmp |-> NoFile, peers |-> file]
    /\ mtx = NoLock
    /\ ctxDone = FALSE
    /\ crawl = "top"
    /\ probes = <<>>

NextStartup ==
    \/ (\E mkdir, remove \in BOOLEAN : NewManager(mkdir, remove)) /\ UNCHANGED <<cvars, mtx>>
    \/ HandlerStep /\ UNCHANGED <<cvars, mtx>>
    \/ Made /\ StopClose /\ UNCHANGED <<cvars, mtx>>
    \/ StopReturn /\ UNCHANGED <<cvars, mtx>>
    \/ Made /\ ClientStep /\ UNCHANGED cvars
    \/ Restart /\ UNCHANGED <<cvars, mtx>>
    \/ Tick /\ UNCHANGED cvars

SpecStartup == InitStartup /\ [][NextStartup]_vars

(***************************************************************************)
(* The methods of the Manager statement by statement, under Manager.mtx:   *)
(* one call of each method, each in a goroutine of its own.                *)
(***************************************************************************)
Writers == {"Good", "AddAddresses", "Attempt", "prunePeers"}
Readers == {"Addresses", "GoodAddresses", "savePeers"}

\* The slice of the AddAddresses call.
LockedBatch == <<Google6, Host(1)>>

\* The registry at the calls: the peer Good and Attempt are called for,
\* not tried yet, and two peers tried and never good.
LockedNodes ==
    LET tried == {AddrPortString(Host(2)), AddrPortString(Host(3))}
    IN [k \in {AddrPortString(Google4)} \cup tried |->
          IF k = AddrPortString(Google4) THEN NewNode(Google4, StartTime)
          ELSE [NewNode(ParseAddrPort(k), StartTime)
                   EXCEPT !.LastAttempt = StartTime]]

\* mtx.Lock that does not wait for the readers.
CanLockDespiteReaders(m) == m.writers = {}

\* mtx.Lock returns when no goroutine holds the mutex for writing or for
\* reading; mtx.RLock when none holds it for writing.
CanLock(m) == m.writers = {} /\ m.readers = {}
CanRLock(m) == m.writers = {}

At(t, pc) == mtx.pc[t] = pc
Goto(m, t, pc) == [m EXCEPT !.pc[t] = pc]

\* m.mtx.Lock() at the top of a method.
Lock(t) ==
    /\ At(t, "call")
    /\ CanLock(mtx)
    /\ mtx' = [Goto(mtx, t, "locked") EXCEPT !.writers = @ \cup {t}]
    /\ logged' = NoLine
    /\ UNCHANGED nodes

\* m.mtx.Unlock(), and the return; prunePeers logs its counts.
Unlock(t) ==
    /\ At(t, "unlock")
    /\ mtx' = [Goto(mtx, t, "ret") EXCEPT !.writers = @ \ {t},
                                         !.committed = nodes]
    /\ logged' = IF t = "prunePeers"
                 THEN [line |-> "Pruned", count |-> mtx.count,
                       remaining |-> Cardinality(DOMAIN nodes)]
                 ELSE NoLine
    /\ UNCHANGED nodes

\* Good(Google4, SFNodeNetwork|SFNodeCF, 8): the lookup and the four
\* assignments, one at a time.
GoodStep ==
    LET k == AddrPortString(Google4)
    IN /\ logged' = NoLine
       /\ \/ /\ At("Good", "locked")
             /\ IF k \in DOMAIN nodes
                THEN /\ nodes' = [nodes EXCEPT ![k].ProtocolVersion = 8]
                     /\ mtx' = Goto(mtx, "Good", "Services")
                ELSE /\ nodes' = nodes
                     /\ mtx' = Goto(mtx, "Good", "unlock")
          \/ /\ At("Good", "Services")
             /\ nodes' = [nodes EXCEPT ![k].Services = SFNodeNetwork + SFNodeCF]
             /\ mtx' = Goto(mtx, "Good", "LastSuccess")
          \/ /\ At("Good", "LastSuccess")
             /\ nodes' = [nodes EXCEPT ![k].LastSuccess = now]
             /\ mtx' = Goto(mtx, "Good", "FirstSuccess")
          \/ /\ At("Good", "FirstSuccess")
             /\ nodes' = [nodes EXCEPT ![k].FirstSuccess =
                                          IF IsZero(@) THEN now ELSE @]
             /\ mtx' = Goto(mtx, "Good", "unlock")

\* AddAddresses(LockedBatch): one pass of the loop for each address.
AddAddressesStep ==
    /\ logged' = NoLine
    /\ \/ /\ At("AddAddresses", "locked")
          /\ nodes' = AddOne([nodes |-> nodes, count |-> 0], LockedBatch[1], now).nodes
          /\ mtx' = Goto(mtx, "AddAddresses", "second")
       \/ /\ At("AddAddresses", "second")
          /\ nodes' = AddOne([nodes |-> nodes, count |-> 1], LockedBatch[2], now).nodes
          /\ mtx' = Goto(mtx, "AddAddresses", "unlock")

\* Attempt(Google4).
AttemptStep ==
    /\ At("Attempt", "locked")
    /\ nodes' = AttemptFn(nodes, Google4, now)
    /\ mtx' = Goto(mtx, "Attempt", "unlock")
    /\ logged' = NoLine

\* prunePeers: the loop deletes one expired node at a time, in the order
\* the map iteration happens to take.
prunePeersStep ==
    /\ At("prunePeers", "locked")
    /\ logged' = NoLine
    /\ IF \E k \in DOMAIN nodes : Pruned(nodes[k], now)
       THEN \E k \in DOMAIN nodes :
               /\ Pruned(nodes[k], now)
               /\ nodes' = [j \in DOMAIN nodes \ {k} |-> nodes[j]]
               /\ mtx' = [mtx EXCEPT !.count = @ + 1]
       ELSE /\ nodes' = nodes
            /\ mtx' = Goto(mtx, "prunePeers", "unlock")

\* m.mtx.RLock() at the top of Addresses, GoodAddresses and savePeers.
RLock(t) ==
    /\ At(t, "call")
    /\ CanRLock(mtx)
    /\ mtx' = [Goto(mtx, t, "reading") EXCEPT !.readers = @ \cup {t}]
    /\ logged' = NoLine
    /\ UNCHANGED nodes

\* The loop over m.nodes, or its encoding.
Read(t) ==
    /\ At(t, "reading")
    /\ mtx' = Goto(mtx, t, "runlock")
    /\ logged' = NoLine
    /\ UNCHANGED nodes

\* m.mtx.RUnlock(), and the return.
RUnlock(t) ==
    /\ At(t, "runlock")
    /\ mtx' = [Goto(mtx, t, "ret") EXCEPT !.readers = @ \ {t}]
    /\ logged' = NoLine
    /\ UNCHANGED nodes

InitLocked ==
    /\ nodes = LockedNodes
    /\ now = StartTime
    /\ ticks = 0
    /\ logged = NoLine
    /\ goods = <<>>
    /\ firstGood = <<>>
    /\ quit = FALSE
    /\ stop = "idle"
    /\ handler = NewHandler
    /\ disk = NoPeersFile
    /\ mtx = [NoLock EXCEPT !.pc = [t \in Writers \cup Readers |-> "call"],
                            !.committed = LockedNodes]
    /\ ctxDone = FALSE
    /\ crawl = "top"
    /\ probes = <<>>

lvars == <<now, ticks, goods, firstGood, quit, stop, handler, disk, cvars>>

NextLocked ==
    \/ (\E t \in Writers : Lock(t)) /\ UNCHANGED lvars
    \/ (\E t \in Writers : Unlock(t)) /\ UNCHANGED lvars
    \/ GoodStep /\ UNCHANGED lvars
    \/ AddAddressesStep /\ UNCHANGED lvars
    \/ AttemptStep /\ UNCHANGED lvars
    \/ prunePeersStep /\ UNCHANGED lvars
    \/ (\E t \in Readers : RLock(t)) /\ UNCHANGED lvars
    \/ (\E t \in Readers : Read(t)) /\ UNCHANGED lvars
    \/ (\E t \in Readers : RUnlock(t)) /\ UNCHANGED lvars

SpecLocked == InitLocked /\ [][NextLocked]_vars

(***************************************************************************)
(* Properties of the address manager.                                      *)
(***************************************************************************)
\* The queries of the HTTP server: ipversion, pver and services.
Filters == [ipversion : {0, 4, 6}, pver : {0, 8},
            services : {0, SFNodeNetwork, SFNodeCF, SFNodeNetwork + SFNodeCF}]

GoodReplies(f) == GoodAddressesResults(nodes, now, f.ipversion, f.pver, f.services)

NoFilter == [ipversion |-> 0, pver |-> 0, services |-> 0]

\* The entries of a reply for the key k.
EntriesOf(R, k) == {e \in R : e.Host = k}

\* C1: every entry GoodAddresses returns, whatever the filters, is of a stored
\* node whose FirstSuccess is set and at least the stale timeout old, and
\* whose LastSuccess is set and less than the stale timeout old.
C1_GoodAddressesStableAndLive ==
    \A f \in Filters : \A R \in GoodReplies(f) : \A e \in R :
        /\ e.Host \in DOMAIN nodes
        /\ nodes[e.Host].FirstSuccess # ZeroTime
        /\ now - nodes[e.Host].FirstSuccess >= defaultStaleTimeout
        /\ nodes[e.Host].LastSuccess # ZeroTime
        /\ now - nodes[e.Host].LastSuccess < defaultStaleTimeout

\* A state in which GoodAddresses returns an entry.
C1_Witness == \E R \in GoodReplies(NoFilter) : R # {}

\* Whether the peer stored under key k, which last reported g, passes filter f.
PassesFilter(k, g, f) ==
    /\ f.ipversion = 4 => k[1] = "ip4"
    /\ f.ipversion = 6 => k[1] = "ip6"
    /\ f.pver # 0 => g.pver >= f.pver
    /\ f.services # 0 => BitAnd(g.services, f.services) = f.services

\* C2 as stated: after a Good call on a stored address, GoodAddresses leaves
\* the address out until the stale timeout has passed since that call, and
\* includes it, with the call's services and protocol version, once it has.
C2_IncludedOnceStaleTimeoutPassed ==
    \A k \in DOMAIN goods : \A f \in Filters : \A R \in GoodReplies(f) :
        LET g == goods[k].last
        IN /\ now - g.t < defaultStaleTimeout => EntriesOf(R, k) = {}
           /\ now - g.t >= defaultStaleTimeout /\ PassesFilter(k, g, f) =>
                EntriesOf(R, k) = {[Host |-> k, Services |-> g.services,
                                    ProtocolVersion |-> g.pver]}

\* C2, amended: after the first Good call on a stored address, GoodAddresses
\* leaves the address out until the stale timeout has passed since that
\* call; from then on, while the entry stays stored (and at most
\* defaultMaxAddresses entries qualify), it includes the address exactly
\* while the latest Good call is less than the stale timeout old and the
\* filters pass, with that latest call's services and protocol version.
C2_IncludedWhileStableAndLive ==
    \A k \in DOMAIN goods : \A f \in Filters : \A R \in GoodReplies(f) :
        LET g == goods[k]
        IN /\ k \in DOMAIN nodes
           /\ now - g.first < defaultStaleTimeout => EntriesOf(R, k) = {}
           /\ IF /\ now - g.first >= defaultStaleTimeout
                 /\ now - g.last.t < defaultStaleTimeout
                 /\ PassesFilter(k, g.last, f)
              THEN EntriesOf(R, k) = {[Host |-> k, Services |-> g.last.services,
                                       ProtocolVersion |-> g.last.pver]}
              ELSE EntriesOf(R, k) = {}

\* A state in which an address is served after two Good calls that reported
\* different services, and another address with a Good call is not served.
C2_Witness ==
    \E k, j \in DOMAIN goods : \E R \in GoodReplies(NoFilter) :
        /\ EntriesOf(R, k) # {}
        /\ goods[k].first < goods[k].last.t
        /\ nodes[k].Services = SFNodeNetwork + SFNodeCF
        /\ EntriesOf(R, j) = {}

\* C3: no step removes a node whose LastAttempt is unset, however old its
\* LastSeen and whatever its LastSuccess.
C3_UntriedNeverPruned ==
    [][\A k \in DOMAIN nodes :
          nodes[k].LastAttempt = ZeroTime => k \in DOMAIN nodes']_vars

\* The state after a prune cycle that removed a node and kept an untried one
\* whose LastSeen is older than the expiry timeout.
C3_Witness ==
    /\ logged.line = "Pruned"
    /\ logged.count >= 1
    /\ \E k \in DOMAIN nodes :
          /\ nodes[k].LastAttempt = ZeroTime
          /\ now - nodes[k].LastSeen > pruneExpireTimeout

\* The nodes C4 says a prune cycle deletes.
Expired(node) ==
    /\ node.LastAttempt # ZeroTime
    /\ \/ now - node.LastSeen > pruneExpireTimeout
       \/ node.LastSuccess = ZeroTime
       \/ now - node.LastSuccess > pruneExpireTimeout

\* C4: a prune cycle deletes exactly the tried nodes whose LastSeen or
\* LastSuccess is older than the expiry timeout (an unset LastSuccess counting
\* as older) and keeps every other node as it is.
C4_PruneDeletesExactlyExpired ==
    [][logged'.line = "Pruned" =>
         /\ DOMAIN nodes' = {k \in DOMAIN nodes : ~Expired(nodes[k])}
         /\ \A k \in DOMAIN nodes' : nodes'[k] = nodes[k]
         /\ logged'.count = Cardinality({k \in DOMAIN nodes : Expired(nodes[k])})]_vars

\* The state after a prune cycle that deleted a node and kept a tried node
\* whose LastSeen and LastSuccess are exactly the expiry timeout old.
C4_Witness ==
    /\ logged.line = "Pruned"
    /\ logged.count >= 1
    /\ \E k \in DOMAIN nodes :
          /\ nodes[k].LastAttempt # ZeroTime
          /\ now - nodes[k].LastSeen = pruneExpireTimeout
          /\ now - nodes[k].LastSuccess = pruneExpireTimeout

\* Whether a timestamp is set and less than the stale timeout old.
Recent(t) == t # ZeroTime /\ now - t < defaultStaleTimeout

\* C5: Addresses returns only addresses of stored nodes with neither a recent
\* success nor a recent attempt, and (below the cap) every node never tried.
C5_AddressesOnlyStale ==
    \A R \in AddressesResults(nodes, now) :
        /\ \A ip \in R : \E k \in DOMAIN nodes :
              /\ nodes[k].IP = ip
              /\ ~Recent(nodes[k].LastSuccess)
              /\ ~Recent(nodes[k].LastAttempt)
        /\ Cardinality(DOMAIN nodes) <= defaultMaxAddresses =>
              \A k \in DOMAIN nodes :
                 nodes[k].LastSuccess = ZeroTime /\ nodes[k].LastAttempt = ZeroTime
                    => nodes[k].IP \in R

\* A state in which Addresses returns a node tried before and leaves out a
\* node with a recent success, and one with a recent attempt only.
C5_Witness ==
    \E R \in AddressesResults(nodes, now) : \E k, j \in DOMAIN nodes :
        /\ nodes[k].IP \in R
        /\ nodes[k].LastAttempt # ZeroTime
        /\ nodes[k].LastSuccess # ZeroTime
        /\ nodes[j].IP \notin R
        /\ Recent(nodes[j].LastSuccess)
        /\ ~Recent(nodes[j].LastAttempt)

\* The keys of the entries that hold the address a, or the IPv4 address it maps.
EntriesFor(n, a) ==
    {k \in DOMAIN n : n[k].IP = a \/ n[k].IP = AddrPortFrom(Unmap(a.addr), a.port)}

\* The slices of the two calls of C10: an address can occur twice in one.
TwiceAdded == SlicesUpTo(MaxBatch + 1)

\* C10 as stated: for every batch, a second AddAddresses with the same batch
\* returns 0 and the registry holds exactly one entry for each address of it.
C10_SecondAddKeepsOneEntryEach ==
    \A b \in TwiceAdded :
        LET r1 == AddAddressesFn(nodes, b, now)
            r2 == AddAddressesFn(r1.nodes, b, now)
        IN /\ r2.count = 0
           /\ \A i \in 1..Len(b) : Cardinality(EntriesFor(r2.nodes, b[i])) = 1

\* C10, amended: for every batch, a second AddAddresses with the same batch
\* returns 0 and adds no key, and the registry holds exactly one entry for
\* each routable address of the batch (an IPv4-mapped address counting as the
\* IPv4 address) and none for a non-routable one.
C10_SecondAddKeepsOneEntryPerRoutable ==
    \A b \in TwiceAdded :
        LET r1 == AddAddressesFn(nodes, b, now)
            r2 == AddAddressesFn(r1.nodes, b, now)
        IN /\ r2.count = 0
           /\ DOMAIN r2.nodes = DOMAIN r1.nodes
           /\ \A i \in 1..Len(b) :
                 Cardinality(EntriesFor(r2.nodes, b[i]))
                   = IF isRoutable(Unmap(b[i].addr)) THEN 1 ELSE 0

\* The state after AddAddresses of 8.8.8.8 and its IPv4-mapped form on an
\* empty registry: adding them again returns 0.
C10_Witness ==
    /\ DOMAIN nodes = {AddrPortString(Google4)}
    /\ nodes[AddrPortString(Google4)].LastSeen = now
    /\ AddAddressesFn(nodes, <<Google4, Google4Mapped>>, now).count = 0

\* The slices of the calls of C11: routable, not routable, new, stored and
\* repeated addresses occur together in one.
CountedSlices == SlicesUpTo(MaxBatch + 1)

\* The key an address of a slice is stored under.
CanonicalKey(a) == AddrPortString(AddrPortFrom(Unmap(a.addr), a.port))

\* The keys of the routable addresses of slice b that n does not store.
NewKeys(n, b) ==
    {CanonicalKey(b[i]) : i \in {j \in 1..Len(b) : isRoutable(Unmap(b[j].addr))}}
        \ DOMAIN n

\* C11: AddAddresses returns the number of entries it inserted: the number
\* of distinct canonical addresses of the slice that are routable and were
\* not stored; it stores those and nothing else, and keeps what was stored.
C11_CountIsNewlyInserted ==
    \A b \in CountedSlices :
        LET r == AddAddressesFn(nodes, b, now)
        IN /\ r.count = Cardinality(NewKeys(nodes, b))
           /\ r.count = Cardinality(DOMAIN r.nodes) - Cardinality(DOMAIN nodes)
           /\ DOMAIN r.nodes = DOMAIN nodes \cup NewKeys(nodes, b)

\* 8.8.8.8 is stored: AddAddresses of 10.0.0.1 and 8.8.8.8 on the empty
\* registry returns 1, and now a call with the stored address in its
\* IPv4-mapped form and a new address returns 1 again.
C11_Witness ==
    /\ AddAddressesFn(<<>>, <<Private4, Google4>>, now).count = 1
    /\ DOMAIN AddAddressesFn(<<>>, <<Private4, Google4>>, now).nodes
          = {AddrPortString(Google4)}
    /\ DOMAIN nodes = {AddrPortString(Google4)}
    /\ AddAddressesFn(nodes, <<Google4Mapped, Google6>>, now).count = 1

\* C12: a stored entry is stored under the string of its address, which is
\* never an IPv4-mapped one, so no two entries are of the same peer: of one
\* IPv4 address, plain in one and mapped in the other, with the same port.
C12_KeysAreCanonical ==
    /\ \A k \in DOMAIN nodes :
          /\ k = AddrPortString(nodes[k].IP)
          /\ ~Is4In6(nodes[k].IP.addr)
    /\ \A j, k \in DOMAIN nodes :
          CanonicalKey(nodes[j].IP) = CanonicalKey(nodes[k].IP) => j = k
    /\ \A a \in AddrPorts :
          Cardinality({k \in DOMAIN AddAddressesFn(nodes, <<a>>, now).nodes :
                         CanonicalKey(AddAddressesFn(nodes, <<a>>, now).nodes[k].IP)
                           = CanonicalKey(a)}) <= 1

\* 8.8.8.8 was stored an hour or more ago: AddAddresses of its IPv4-mapped
\* form refreshes that entry and adds none.
C12_Witness ==
    /\ DOMAIN nodes = {AddrPortString(Google4)}
    /\ nodes[AddrPortString(Google4)].LastSeen < now
    /\ AddAddressesFn(nodes, <<Google4Mapped>>, now).nodes
          = [nodes EXCEPT ![AddrPortString(Google4)].LastSeen = now]

\* What Good(a, r.services, r.pver) at time t makes of the node it finds.
AfterGood(node, r, t) ==
    [node EXCEPT !.Services = r.services, !.ProtocolVersion = r.pver,
                 !.LastSuccess = t,
                 !.FirstSuccess = IF node.FirstSuccess = ZeroTime THEN t ELSE @]

\* C13 as stated: Good on a stored address sets Services, ProtocolVersion
\* and LastSuccess = now, and FirstSuccess = now only if it was unset; a set
\* FirstSuccess is not overwritten; after any sequence of operations the
\* FirstSuccess of a stored node is unset or the time of the first Good
\* there ever was for its address.
C13_FirstSuccessIsFirstEver ==
    /\ \A a \in AddrPorts, r \in PeerReports :
          AddrPortString(a) \in DOMAIN nodes =>
             GoodFn(nodes, a, r.services, r.pver, now)
               = [nodes EXCEPT ![AddrPortString(a)] = AfterGood(@, r, now)]
    /\ \A k \in DOMAIN nodes :
          IF k \in DOMAIN firstGood
          THEN nodes[k].FirstSuccess \in {ZeroTime, firstGood[k]}
          ELSE nodes[k].FirstSuccess = ZeroTime

\* C13, amended: Good on a stored address sets Services, ProtocolVersion
\* and LastSuccess = now, and FirstSuccess = now only if it was unset; the
\* FirstSuccess of a stored node is the time of the first Good since the
\* entry was inserted (unset if there was none), and no step changes a set
\* FirstSuccess while the entry stays stored.
C13_FirstSuccessSetOncePerEntry ==
    /\ [](\A a \in AddrPorts, r \in PeerReports :
            AddrPortString(a) \in DOMAIN nodes =>
               GoodFn(nodes, a, r.services, r.pver, now)
                 = [nodes EXCEPT ![AddrPortString(a)] = AfterGood(@, r, now)])
    /\ [](\A k \in DOMAIN nodes :
            IF k \in DOMAIN goods
            THEN /\ nodes[k].FirstSuccess = goods[k].first
                 /\ nodes[k].FirstSuccess # ZeroTime
                 /\ nodes[k].LastSuccess = goods[k].last.t
            ELSE nodes[k].FirstSuccess = ZeroTime)
    /\ [][\A k \in DOMAIN nodes \cap DOMAIN nodes' :
            nodes[k].FirstSuccess # ZeroTime
              => nodes'[k].FirstSuccess = nodes[k].FirstSuccess]_vars

\* Good was called an hour or more after the first Good on a stored entry:
\* LastSuccess is now, FirstSuccess still the time of the first.
C13_Witness ==
    \E k \in DOMAIN goods :
        /\ goods[k].first < goods[k].last.t
        /\ goods[k].last.t = now
        /\ nodes[k].FirstSuccess = goods[k].first
        /\ nodes[k].LastSuccess = now

\* C14: Attempt and Good on an address the registry does not store leave
\* the registry as it is: no entry is created, none is changed.
C14_AbsentAddressNoOp ==
    \A a \in AddrPorts :
        AddrPortString(a) \notin DOMAIN nodes =>
           /\ AttemptFn(nodes, a, now) = nodes
           /\ \A r \in PeerReports : GoodFn(nodes, a, r.services, r.pver, now) = nodes

\* prunePeers has just deleted the entry of 8.8.8.8: the Attempt and the
\* Good of a probe of it that is still under way change nothing.
C14_Witness ==
    /\ logged.line = "Pruned"
    /\ logged.count > 0
    /\ AddrPortString(Google4) \notin DOMAIN nodes
    /\ AttemptFn(nodes, Google4, now) = nodes
    /\ GoodFn(nodes, Google4, SFNodeNetwork, 7, now) = nodes

\* Bit i of the unsigned integer x.
Bit(x, i) == (x \div Pow2(i)) % 2

\* The bits of the service flags of the model.
ServiceBits == 0..2

\* C15: with a non-zero services filter S, every entry GoodAddresses
\* returns is of a stored node, carries its stored services, and these have
\* every bit of S.
C15_AllRequiredServiceBits ==
    \A f \in Filters : f.services # 0 =>
        \A R \in GoodReplies(f) : \A e \in R :
            /\ e.Host \in DOMAIN nodes
            /\ e.Services = nodes[e.Host].Services
            /\ \A i \in ServiceBits : Bit(f.services, i) = 1 => Bit(e.Services, i) = 1

\* A node with SFNodeNetwork alone is served: it is returned for the filter
\* SFNodeNetwork and not for SFNodeNetwork|SFNodeCF, of which it has one bit.
C15_Witness ==
    /\ \E R \in GoodReplies([NoFilter EXCEPT !.services = SFNodeNetwork]) :
          \E e \in R : e.Services = SFNodeNetwork
    /\ \A R \in GoodReplies([NoFilter EXCEPT !.services = SFNodeNetwork + SFNodeCF]) :
          R = {}

\* Every entry some reply to the query f holds.
Served(f) == UNION GoodReplies(f)

\* C16: with ipversion 4 GoodAddresses returns IPv4 entries only, with
\* ipversion 6 IPv6 entries only, and with a non-zero pver only entries of
\* that protocol version or a later one; with ipversion 0 it returns what
\* it returns with 4 and with 6, and with pver 0 whatever the protocol
\* version, the other filters being the same.
C16_VersionFilters ==
    \A f \in Filters :
        /\ \A e \in Served(f) :
              /\ e.Host \in DOMAIN nodes
              /\ f.ipversion = 4 => Is4(nodes[e.Host].IP.addr) /\ e.Host[1] = "ip4"
              /\ f.ipversion = 6 => Is6(nodes[e.Host].IP.addr) /\ e.Host[1] = "ip6"
              /\ f.pver # 0 => e.ProtocolVersion >= f.pver
        /\ f.ipversion = 0 =>
              Served(f) = Served([f EXCEPT !.ipversion = 4])
                            \cup Served([f EXCEPT !.ipversion = 6])
        /\ f.pver = 0 =>
              \A p \in {7, 8} :
                 Served([f EXCEPT !.pver = p]) = {e \in Served(f) : e.ProtocolVersion >= p}

\* An IPv4 node of protocol version 7 and an IPv6 node of protocol version 8
\* are served: the filters 4, 6 and pver 8 each leave one of them out.
C16_Witness ==
    /\ Cardinality(Served(NoFilter)) = 2
    /\ Cardinality(Served([NoFilter EXCEPT !.ipversion = 4])) = 1
    /\ Cardinality(Served([NoFilter EXCEPT !.ipversion = 6])) = 1
    /\ Cardinality(Served([NoFilter EXCEPT !.pver = 8])) = 1

\* The keys of the nodes Addresses appends, and GoodAddresses without filter.
NeedTest == {k \in DOMAIN nodes : NeedsTest(nodes[k], now)}

AreGood == {k \in DOMAIN nodes : IsGood(nodes[k], now, 0, 0, 0)}

\* min(defaultMaxAddresses, n)
Capped(n) == IF n > defaultMaxAddresses THEN defaultMaxAddresses ELSE n

\* C17: Addresses and GoodAddresses each return min(16, number of
\* qualifying nodes) entries, all different and all of qualifying nodes.
C17_ExactlyCappedReplies ==
    /\ \A R \in AddressesResults(nodes, now) :
          /\ Cardinality(R) = Capped(Cardinality(NeedTest))
          /\ R \subseteq {nodes[k].IP : k \in NeedTest}
    /\ \A R \in GoodAddressesResults(nodes, now, 0, 0, 0) :
          /\ Cardinality(R) = Capped(Cardinality(AreGood))
          /\ R \subseteq {ApiNode(nodes[k]) : k \in AreGood}

\* More than defaultMaxAddresses nodes need a test, and Addresses can
\* return this or that 16 of them.
C17_Witness ==
    /\ Cardinality(NeedTest) > defaultMaxAddresses
    /\ Cardinality(AddressesResults(nodes, now)) > 1
    /\ \A R \in AddressesResults(nodes, now) : Cardinality(R) = defaultMaxAddresses

(***************************************************************************)
(* Properties of the crawler.                                              *)
(***************************************************************************)
\* C6 as stated: no testPeer goroutine reaches its end without having called
\* Attempt for its address, whatever its outcome.
C6_DoneOnlyAfterAttempt ==
    \A ip \in DOMAIN probes : probes[ip].pc = "Done" => probes[ip].attempted

\* C7: a testPeer goroutine holds an open connection only between the dial
\* and its deferred Disconnect; once it is done its connection, if it got
\* one, is closed.
C7_NoOpenConnectionAtDone ==
    \A ip \in DOMAIN probes :
        /\ probes[ip].pc \in {"Idle", "Dialing"} => probes[ip].conn = "none"
        /\ probes[ip].pc \in {"Handshaking", "AwaitingAddresses", "Disconnecting"}
              => probes[ip].conn = "open"
        /\ probes[ip].pc \in {"Attempting", "Done"} => probes[ip].conn # "open"

\* A goroutine that got a connection is done.
C7_Witness ==
    \E ip \in DOMAIN probes : probes[ip].pc = "Done" /\ probes[ip].conn = "closed"

\* The order of the positions of testPeer.
Rank(pc) ==
    CASE pc = "Idle" -> 0
      [] pc = "Dialing" -> 1
      [] pc = "Handshaking" -> 2
      [] pc = "AwaitingAddresses" -> 3
      [] pc = "Disconnecting" -> 4
      [] pc = "Attempting" -> 5
      [] pc = "Done" -> 6

\* A step of the goroutine of ip moves it forward.
MovesForward(ip) ==
    (ip \in DOMAIN probes /\ ip \in DOMAIN probes' /\ probes'[ip] # probes[ip]
       /\ probes[ip].pc # "Done")
    => \/ Rank(probes'[ip].pc) > Rank(probes[ip].pc)
       \/ probes'[ip].pc = probes[ip].pc /\ probes[ip].conn = "open"

\* C8: a testPeer goroutine never returns to a position it has left, so it
\* dials, waits for the handshake and waits for the addresses at most once;
\* and, the goroutines being scheduled, every goroutine started reaches its
\* end.
C8_ProbeTerminatesWithoutRetry ==
    /\ [][\A ip \in AddrPorts : MovesForward(ip)]_vars
    /\ \A ip \in AddrPorts :
          (ip \in DOMAIN probes) ~> (ip \in DOMAIN probes /\ probes[ip].pc = "Done")

\* A goroutine that went through the handshake and the wait for addresses is
\* done.
C8_Witness ==
    \E ip \in DOMAIN probes :
        /\ probes[ip].pc = "Done"
        /\ probes[ip].attempted
        /\ AddrPortString(ip) \in DOMAIN nodes
        /\ nodes[AddrPortString(ip)].LastSuccess = now
        /\ nodes[AddrPortString(ip)].LastAttempt = now

\* The testPeer goroutines that have not ended.
InFlight == {ip \in DOMAIN probes : probes[ip].pc # "Done"}

MaintenanceCalls == {"prune", "dump", "final"}

\* C18: addressHandler has at most one call in progress, a prunePeers, a
\* periodic savePeers or the final savePeers, the one it is in, and none
\* when it is at the select or has returned; savePeers steps only inside a
\* save.
C18_OneMaintenanceActionAtATime ==
    /\ Len(handler.active) <= 1
    /\ handler.at \in MaintenanceCalls => handler.active = <<handler.at>>
    /\ handler.at \notin MaintenanceCalls => handler.active = <<>>
    /\ handler.step # "none" => handler.at \in {"dump", "final"}

\* The final save is about to rename its file over the snapshot a periodic
\* save wrote before the registry changed.
C18_Witness ==
    /\ handler.active = <<"final">>
    /\ handler.step = "rename"
    /\ disk.peers.exists
    /\ disk.peers # SnapshotFile(nodes)

\* The lines savePeers logs when it ends.
SaveLines == {"Error opening file", "Failed to encode file", "Error closing file",
              "Error writing file", "nodes saved"}

\* C19: addressHandler returns only from the final savePeers, which it
\* calls once, after it has taken the closed quit channel; from then on it
\* starts no prunePeers and no periodic savePeers; and Stop returns only
\* when addressHandler has returned.
C19_FinalSaveBeforeStopReturns ==
    /\ [](stop = "done" => handler.at = "returned")
    /\ [](handler.at \in {"final", "returned"} => quit /\ handler.finals = 1)
    /\ [](handler.at \notin {"final", "returned"} => handler.finals = 0)
    /\ [][handler.at \in {"final", "returned"}
            => handler'.at \in {"final", "returned"}]_vars
    /\ [][handler.at # "returned" /\ handler'.at = "returned"
            => handler.at = "final" /\ logged'.line \in SaveLines]_vars

\* Stop has returned, and the peers file holds the registry.
C19_Witness ==
    /\ stop = "done"
    /\ logged.line = "Address manager done."
    /\ nodes # <<>>
    /\ disk.peers = SnapshotFile(nodes)

\* The lines savePeers logs when a step of it fails.
SaveFailureLines == SaveLines \ {"nodes saved"}

\* C20: the peers file never holds anything but a whole snapshot: it
\* changes only when savePeers has renamed the temporary file, to the
\* encoding of the whole registry; no step of savePeers changes the
\* registry; and after a step that failed the peers file is as it was and
\* addressHandler goes on (to the select, or, from the final save, to its
\* return).
C20_SnapshotReplacedAtomically ==
    /\ [](disk.peers.exists => disk.peers.complete)
    /\ [][handler.step # "none" => nodes' = nodes]_vars
    /\ [][disk'.peers # disk.peers
            => /\ logged'.line = "nodes saved"
               /\ disk'.peers = SnapshotFile(nodes)
               /\ nodes' = nodes]_vars
    /\ [][logged'.line \in SaveFailureLines /\ handler' # handler
            => /\ disk'.peers = disk.peers
               /\ nodes' = nodes
               /\ handler'.at = IF handler.at = "final" THEN "returned" ELSE "select"
               /\ handler'.active = <<>>]_vars

\* The encoding has just failed: the temporary file is half-written, the
\* peers file holds the snapshot of before, which the registry has left
\* behind.
C20_Witness ==
    /\ logged.line = "Failed to encode file"
    /\ disk.tmp = PartialFile
    /\ disk.peers.exists
    /\ disk.peers.complete
    /\ disk.peers # SnapshotFile(nodes)

(***************************************************************************)
(* Properties of the start of the process.                                 *)
(***************************************************************************)
\* NewManager has read the whole peers file it found.
Loads == handler.at = "new" /\ handler'.at = "select" /\ Decodes(disk.peers)

C21_WitnessOfSaved ==
    /\ logged.line = "nodes loaded"
    /\ disk.peers = SnapshotFile(nodes)
    /\ \E k \in DOMAIN nodes : nodes[k].LastAttempt = StartTime + 1

\* NewManager returns a Manager, having found no peers file, or one that
\* does not decode.
MakesWithoutFile == handler.at = "new" /\ handler'.at = "select" /\ ~disk.peers.exists
MakesOfCorruptFile ==
    /\ handler.at = "new"
    /\ handler'.at = "select"
    /\ disk.peers.exists
    /\ ~disk.peers.complete

\* The Manager NewManager returns: an empty registry that AddAddresses
\* fills, and the maintenance goroutine at its select.
StartsEmpty ==
    /\ nodes' = <<>>
    /\ handler' = NewHandler
    /\ AddAddressesFn(nodes', <<Google4>>, now).count = 1
    /\ DOMAIN AddAddressesFn(nodes', <<Google4>>, now).nodes
          = {AddrPortString(Google4)}

\* C22 as stated: with no peers file the registry starts empty; with a file
\* that does not decode the file is deleted and the registry starts empty;
\* in both cases the maintenance cycle is started and AddAddresses works.
C22_CorruptFileIsDeleted ==
    [][/\ MakesWithoutFile => StartsEmpty /\ disk' = disk
       /\ MakesOfCorruptFile => StartsEmpty /\ disk'.peers = NoFile]_vars

\* C22: with no peers file the registry starts empty; with a file that does
\* not decode the registry starts empty, with no entry of the file, and the
\* file is deleted, or, when the removal fails, that is logged and the file
\* stays; in every case the maintenance cycle is started and AddAddresses
\* works on the empty registry.
C22_StartsEmptyWithoutReadableFile ==
    [][/\ MakesWithoutFile => StartsEmpty /\ disk' = disk
       /\ MakesOfCorruptFile =>
             /\ StartsEmpty
             /\ \/ disk'.peers = NoFile /\ logged'.line = "Failed to parse file"
                \/ /\ disk' = disk
                   /\ logged'.line = "Failed to remove corrupt peers file"]_vars

\* After a start from a file cut short that could not be removed, the
\* registry holds an address added since and a dump of it is under way.
C22_Witness ==
    /\ disk.peers = CutFile(StartRegistry({1}))
    /\ DOMAIN nodes = {AddrPortString(Google4)}
    /\ handler.active = <<"dump">>
    /\ disk.tmp = SnapshotFile(nodes)

(***************************************************************************)
(* Properties of the locking.                                              *)
(***************************************************************************)
\* The registry holds a Good half done, or half of the AddAddresses batch.
HalfDone ==
    \/ \E k \in DOMAIN nodes :
          /\ ~IsZero(nodes[k].LastSuccess) \/ nodes[k].ProtocolVersion # 0
          /\ \/ IsZero(nodes[k].FirstSuccess)
             \/ nodes[k].Services = 0
             \/ nodes[k].ProtocolVersion = 0
    \/ AddrPortString(LockedBatch[1]) \in DOMAIN nodes
          /\ AddrPortString(LockedBatch[2]) \notin DOMAIN nodes

\* C23: at most one of AddAddresses, Attempt, Good and prunePeers is inside
\* its locked section at a time, none is while Addresses, GoodAddresses or
\* savePeers reads, and what a reader sees is the registry as the last
\* whole writing call left it: no Good half done, no half of a batch.
C23_WritersExcludeAllReadersSeeWholeCalls ==
    /\ Cardinality(mtx.writers) <= 1
    /\ mtx.writers # {} => mtx.readers = {}
    /\ mtx.readers # {} => nodes = mtx.committed /\ ~HalfDone

\* Two readers at once see the registry after Good, AddAddresses and
\* prunePeers have each run as a whole.
C23_Witness ==
    /\ Cardinality(mtx.readers) >= 2
    /\ \E k \in DOMAIN nodes : ~IsZero(nodes[k].LastSuccess)
    /\ AddrPortString(LockedBatch[2]) \in DOMAIN nodes
    /\ AddrPortString(Host(2)) \notin DOMAIN nodes

\* A writer is inside its locked section with its update half done.
C23_HalfDoneHappens == mtx.writers # {} /\ HalfDone

(***************************************************************************)
(* Properties of the probe's failures.                                     *)
(***************************************************************************)
\* The step of the probe of ip in which it fails: the dial fails, the first
\* select does not take verack, or the second does not take onaddr.
DialFails(ip) ==
    probes[ip].pc = "Dialing" /\ probes'[ip].pc # "Dialing"
        /\ probes'[ip].pc # "Handshaking"
HandshakeFails(ip) ==
    probes[ip].pc = "Handshaking" /\ probes'[ip].pc # "Handshaking"
        /\ probes'[ip].pc # "AwaitingAddresses"
AddressListFails(ip) ==
    /\ probes[ip].pc = "AwaitingAddresses"
    /\ probes'[ip].pc # "AwaitingAddresses"
    /\ probes'[ip].onaddr = probes[ip].onaddr
Fails(ip) == DialFails(ip) \/ HandshakeFails(ip) \/ AddressListFails(ip)

\* The probe's goroutine of ip is in both states of the step.
Probing(ip) == ip \in DOMAIN probes /\ ip \in DOMAIN probes'

\* The deferred Attempt of the probe of ip runs in the step.
Attempts(ip) == probes[ip].pc = "Attempting" /\ probes'[ip].pc = "Done"

\* The registry after the step is the one before it but for lastAttempt
\* of ip, which is now.
OnlyLastAttemptOf(ip) ==
    LET k == AddrPortString(ip)
    IN /\ DOMAIN nodes' = DOMAIN nodes
       /\ \A j \in DOMAIN nodes :
             IF j = k
             THEN nodes' = [nodes EXCEPT ![k].LastAttempt = now]
             ELSE nodes'[j] = nodes[j]

\* C24 as stated: a probe that fails, at the dial, the handshake or the
\* address list, has changed nothing of its peer and changes nothing but
\* its lastAttempt, and the driver goes on.
C24_FailedProbeWroteOnlyLastAttempt ==
    [][\A ip \in AddrPorts : Probing(ip) =>
          /\ Fails(ip) => ~probes[ip].good /\ nodes' = nodes /\ crawl' = crawl
          /\ Attempts(ip) => OnlyLastAttemptOf(ip) /\ crawl' = crawl]_vars

\* C24: the failure itself is recorded only by the deferred Attempt: the
\* failing step leaves the registry as it is, the Attempt changes nothing
\* but lastAttempt of that peer, and the driver goes on; Good was recorded
\* before the failure exactly when the failure is that of the address list.
C24_FailureAddsOnlyLastAttempt ==
    [][\A ip \in AddrPorts : Probing(ip) =>
          /\ DialFails(ip) \/ HandshakeFails(ip) =>
                ~probes[ip].good /\ nodes' = nodes /\ crawl' = crawl
          /\ AddressListFails(ip) =>
                probes[ip].good /\ nodes' = nodes /\ crawl' = crawl
          /\ Attempts(ip) => OnlyLastAttemptOf(ip) /\ crawl' = crawl]_vars

\* A probe has ended after a failure before the handshake was complete:
\* its peer has the attempt of this instant and has never been good, and
\* the driver waits for the batch.
C24_Witness ==
    /\ crawl = "waiting"
    /\ \E ip \in DOMAIN probes :
          /\ probes[ip].pc = "Done"
          /\ probes[ip].attempted
          /\ AddrPortString(ip) \in DOMAIN nodes
          /\ nodes[AddrPortString(ip)].LastAttempt = now
          /\ IsZero(nodes[AddrPortString(ip)].LastSuccess)

(***************************************************************************)
(* Properties of the retry.                                                *)
(***************************************************************************)
\* The last probe of the node ended without a handshake: it has an attempt
\* later than its last success, if it has a success at all.
FailedLast(node) ==
    ~IsZero(node.LastAttempt) /\ node.LastSuccess < node.LastAttempt

\* The node was seen and was good within the expiry window.
Kept(node, t) ==
    /\ Sub(t, node.LastSeen) <= pruneExpireTimeout
    /\ Sub(t, node.LastSuccess) <= pruneExpireTimeout

\* The staleness window has passed since the node's attempt and success.
StaleAgain(node, t) ==
    /\ Sub(t, node.LastAttempt) >= defaultStaleTimeout
    /\ Sub(t, node.LastSuccess) >= defaultStaleTimeout

\* crawler.run calls Addresses and starts the batch, or goes to sleep.
AsksAddresses == crawl = "checked" /\ crawl' # "checked"

C25_RetryHappens ==
    \A ip \in {Google4, Google6} :
        (/\ AddrPortString(ip) \in DOMAIN nodes
         /\ StaleAgain(nodes[AddrPortString(ip)], now))
            ~> (\/ Running(ip)
                \/ AddrPortString(ip) \notin DOMAIN nodes
                \/ ctxDone)

Launches == \E ip \in DOMAIN probes' : ip \notin DOMAIN probes

C26_DriverReturns == ctxDone ~> (crawl = "returned" /\ probes = <<>>)

SeededWith(seeder) ==
    LET addrPort == AddrPortFrom(Unmap(seeder.addr), seeder.port)
    IN nodes = [k \in {AddrPortString(addrPort)} |-> NewNode(addrPort, StartTime)]

\* C27: when main has called AddAddresses with the seeder, the seeder is
\* stored, and the Addresses call crawler.run makes on that registry
\* returns it, so that a probe of the seeder is started.
C27_SeedStoredAndProbedFirst ==
    /\ \E seeder \in Seeders : SeededWith(seeder)
    /\ [][\A seeder \in Seeders :
             SeededWith(seeder) /\ AsksAddresses =>
                 /\ crawl' = "waiting"
                 /\ Unmap(seeder.addr) = seeder.addr => seeder \in DOMAIN probes'
                 /\ \A ip \in DOMAIN probes' : probes'[ip] = NewProbe]_vars

(***************************************************************************)
(* isRoutable on the ranges it rejects, their ends and their neighbours.   *)
(***************************************************************************)
\* The largest value of a field of the address: a byte, or 16 bits.
WordMax(addr) == Pow2(WordBits(addr)) - 1

AllOf(word, len) == [i \in 1..len |-> word]

\* a <= b as numbers, for two addresses of one family.
RECURSIVE WordsLeq(_, _, _)
WordsLeq(a, b, i) ==
    IF i > Len(a) THEN TRUE
    ELSE IF a[i] # b[i] THEN a[i] < b[i]
    ELSE WordsLeq(a, b, i + 1)

Leq(a, b) == a.z = b.z /\ WordsLeq(a.w, b.w, 1)

\* The address after addr and the one before it.
RECURSIVE WordsSucc(_, _, _)
WordsSucc(w, i, max) ==
    IF i = 0 THEN w
    ELSE IF w[i] < max THEN [w EXCEPT ![i] = @ + 1]
    ELSE WordsSucc([w EXCEPT ![i] = 0], i - 1, max)

RECURSIVE WordsPred(_, _, _)
WordsPred(w, i, max) ==
    IF i = 0 THEN w
    ELSE IF w[i] > 0 THEN [w EXCEPT ![i] = @ - 1]
    ELSE WordsPred([w EXCEPT ![i] = max], i - 1, max)

Succ(addr) == [addr EXCEPT !.w = WordsSucc(addr.w, Len(addr.w), WordMax(addr))]
Pred(addr) == [addr EXCEPT !.w = WordsPred(addr.w, Len(addr.w), WordMax(addr))]

Range(lo, hi) == [lo |-> lo, hi |-> hi]

\* An IPv6 address that starts with the words h and goes on with word.
V6From(h, word) == V6(h \o AllOf(word, 8 - Len(h)))

\* 127.0.0.0/8, 10.0.0.0/8, 172.16.0.0/12, 192.168.0.0/16, 100.64.0.0/10,
\* 2002::/16, 2001::/32, 2001:10::/28, FE80::/64 and FC00::/7.
BlockRanges ==
    {Range(V4(127, 0, 0, 0), V4(127, 255, 255, 255)),
     Range(V4(10, 0, 0, 0), V4(10, 255, 255, 255)),
     Range(V4(172, 16, 0, 0), V4(172, 31, 255, 255)),
     Range(V4(192, 168, 0, 0), V4(192, 168, 255, 255)),
     Range(V4(100, 64, 0, 0), V4(100, 127, 255, 255)),
     Range(V6From(<<8194>>, 0), V6From(<<8194>>, 65535)),
     Range(V6From(<<8193, 0>>, 0), V6From(<<8193, 0>>, 65535)),
     Range(V6From(<<8193, 16>>, 0), V6From(<<8193, 31>>, 65535)),
     Range(V6From(<<65152, 0, 0, 0>>, 0), V6From(<<65152, 0, 0, 0>>, 65535)),
     Range(V6From(<<64512>>, 0), V6From(<<65023>>, 65535))}

\* 0.0.0.0, :: and ::1, each a range of one address.
SingleRanges ==
    {Range(V4(0, 0, 0, 0), V4(0, 0, 0, 0)),
     Range(V6From(<<>>, 0), V6From(<<>>, 0)),
     Range(Succ(V6From(<<>>, 0)), Succ(V6From(<<>>, 0)))}

Rejected(addr) ==
    \E r \in BlockRanges \cup SingleRanges : Leq(r.lo, addr) /\ Leq(addr, r.hi)

\* An address inside the block: the first one with its last field changed.
Inside(r) == [r.lo EXCEPT !.w[Len(r.lo.w)] = 2]

\* Addresses in no range: public ones, multicast, broadcast, IPv4
\* link-local, and link-local IPv6 outside FE80::/64.
Others ==
    {V4(8, 8, 8, 8), V4(224, 0, 0, 1), V4(255, 255, 255, 255),
     V4(169, 254, 0, 1), V4(1, 1, 1, 1),
     V6(<<8193, 18528, 18528, 0, 0, 0, 0, 34952>>),
     V6From(<<65152, 1>>, 0), V6From(<<65280>>, 1), V6From(<<65535>>, 65535)}

TestAddrs ==
    UNION {{r.lo, r.hi, Succ(r.hi)} : r \in BlockRanges \cup SingleRanges}
        \cup UNION {{Pred(r.lo), Inside(r)} : r \in BlockRanges}
        \cup Others

\* The addresses a peer reports, one slice of one address at a time, to a
\* registry of at most one node.
NextRoutable ==
    \E addr \in TestAddrs :
        /\ Cardinality(DOMAIN nodes) < 2
        /\ AddAddresses(<<AddrPortFrom(addr, 9108)>>)
        /\ UNCHANGED cvars

SpecRoutable == Init /\ [][NextRoutable]_vars

CallsGood(ip) == probes'[ip].good /\ ~probes[ip].good
Merges(ip) == probes'[ip].onaddr = 1 /\ probes[ip].onaddr = 0

\* Good is called in the step that takes the verack the listener sent, and
\* in no step that leaves the handshake wait otherwise; getaddr is queued
\* with Good or after it.
GoodAfterVerAck(ip) ==
    /\ CallsGood(ip) =>
          /\ probes[ip].pc = "Handshaking"
          /\ probes[ip].verack = 1
          /\ probes'[ip].verack = 0
          /\ probes'[ip].pc = "AwaitingAddresses"
    /\ HandshakeFails(ip) => nodes' = nodes /\ ~probes'[ip].good
    /\ probes'[ip].getaddr => probes'[ip].good

\* C29 as stated: Good only after the verack was received, getaddr only
\* after Good, and AddAddresses with the peer's entries only after Good.
C29_MergeOnlyAfterGood ==
    [][\A ip \in AddrPorts : Probing(ip) =>
          /\ GoodAfterVerAck(ip)
          /\ Merges(ip) => probes[ip].good]_vars

\* C29: Good only after the verack was received, never on the timeout or
\* the cancellation, and getaddr only after Good; the entries of an addr
\* message are merged through AddAddresses by the listener when the message
\* arrives on the open connection, be it before the probe has called Good.
C29_GoodOnlyAfterVerAck ==
    [][\A ip \in AddrPorts : Probing(ip) =>
          /\ GoodAfterVerAck(ip)
          /\ Merges(ip) =>
                /\ probes[ip].conn = "open"
                /\ \E list \in PeerLists :
                      nodes' = AddAddressesFn(nodes, list, now).nodes]_vars

\* A probe has called Good and queued getaddr, and the peer's entries have
\* been merged since: it waits with the listener's send ready.
C29_Witness ==
    \E ip \in DOMAIN probes :
        /\ probes[ip].pc = "AwaitingAddresses"
        /\ probes[ip].good
        /\ probes[ip].getaddr
        /\ probes[ip].onaddr = 1
        /\ AddrPortString(ip) \in DOMAIN nodes
        /\ nodes[AddrPortString(ip)].LastSuccess = now
        /\ AddrPortString(Google6) \in DOMAIN nodes
        /\ nodes[AddrPortString(Google6)].LastSeen = now

(***************************************************************************)
(* Properties of the batch after the batch.                                *)
(***************************************************************************)
\* wg.Wait of crawler.run can return: every goroutine of the batch is done.
BatchComplete == crawl = "waiting" /\ probes # <<>> /\ WaitGroupDone(probes)

\* C30: when the batch is complete, the Addresses call crawler.run makes
\* next returns none of the addresses of the batch.
C30_ProbedNotReturnedNext ==
    BatchComplete =>
        \A R \in AddressesResults(nodes, now) : R \cap DOMAIN probes = {}

(***************************************************************************)
(* Properties of the pruning during a probe.                               *)
(***************************************************************************)
\* The probe of ip is between its start and its deferred Attempt, and its
\* peer is stored.
UnderTest(ip) ==
    /\ ip \in DOMAIN probes
    /\ probes[ip].pc # "Done"
    /\ AddrPortString(ip) \in DOMAIN nodes

RunTakeDone ==
    /\ Selecting(handler)
    /\ ctxDone
    /\ handler' = AfterBreak(handler)
    /\ logged' = NoLine
    /\ UNCHANGED <<nodes, now, ticks, goods, firstGood, quit, stop, disk>>

\* The steps of Manager.run.
RunStep ==
    \/ HandlerTakeDump
    \/ HandlerTakePrune
    \/ RunTakeDone
    \/ HandlerPrune
    \/ \E ok \in BOOLEAN : SaveCreate(ok)
    \/ \E ok \in BOOLEAN : SaveEncode(ok)
    \/ \E ok \in BOOLEAN : SaveClose(ok)
    \/ \E ok \in BOOLEAN : SaveRename(ok)

\* main: wg.Wait returns once amgr.run and c.run have, and main logs and
\* returns.
MainReturn ==
    /\ stop = "idle"
    /\ handler.at = "returned"
    /\ crawl = "returned"
    /\ stop' = "done"
    /\ logged' = [line |-> "Bye!"]
    /\ UNCHANGED <<nodes, now, ticks, goods, firstGood, quit, handler, disk>>

\* A call that writes the registry waits for mtx.Lock while savePeers holds
\* the read lock.
LockAllows == ReadLocked => UNCHANGED nodes

NextShutdown ==
    \/ CrawlStep
    \/ \E ip \in AddrPorts : ProbeStep(ip) /\ LockAllows
    \/ \E ip \in AddrPorts : OnVerAck(ip)
    \/ \E ip \in AddrPorts, list \in PeerLists : OnAddr(ip, list) /\ LockAllows
    \/ Cancel
    \/ RunStep /\ UNCHANGED <<cvars, mtx>>
    \/ MainReturn /\ UNCHANGED <<cvars, mtx>>

SpecShutdown == InitCrawl /\ [][NextShutdown]_vars

\* C32: no call changes the registry once the final snapshot is written and
\* the address manager has returned.
C32_NoMutationAfterFinalSnapshot ==
    [][handler.at = "returned" => nodes' = nodes]_vars

\* C32: the final snapshot is begun only when the crawler has returned and
\* every probe has completed.
C32_FinalSnapshotAfterProbes ==
    [][handler'.finals > handler.finals =>
          /\ crawl = "returned"
          /\ \A ip \in DOMAIN probes : probes[ip].pc = "Done"]_vars


(***************************************************************************)
(* Properties of the four timestamps of a Node.                            *)
(***************************************************************************)
Stamps == {"LastSeen", "LastAttempt", "FirstSuccess", "LastSuccess"}

\* The step stores an entry under k that was not stored before it.
Inserted(k) == k \notin DOMAIN nodes /\ k \in DOMAIN nodes'

\* C33: a newly inserted entry has LastSeen at the time of the insertion and
\* its three other timestamps unset; FirstSuccess is never later than
\* LastSuccess when both are set; and no timestamp of an entry decreases
\* while the entry is stored.
C33_TimestampsOrdered ==
    /\ [](\A k \in DOMAIN nodes :
             ~IsZero(nodes[k].FirstSuccess) /\ ~IsZero(nodes[k].LastSuccess)
                => nodes[k].FirstSuccess <= nodes[k].LastSuccess)
    /\ [][/\ now' >= now
          /\ \A k \in DOMAIN nodes' :
                /\ Inserted(k) =>
                      /\ nodes'[k].LastSeen = now
                      /\ IsZero(nodes'[k].LastAttempt)
                      /\ IsZero(nodes'[k].FirstSuccess)
                      /\ IsZero(nodes'[k].LastSuccess)
                /\ k \in DOMAIN nodes =>
                      \A f \in Stamps : nodes'[k][f] >= nodes[k][f]]_vars

\* An entry stored at an earlier instant has all four timestamps set, the
\* first success before the last and the last sighting after its insertion.
C33_Witness ==
    \E k \in DOMAIN nodes :
       /\ nodes[k].FirstSuccess < nodes[k].LastSuccess
       /\ ~IsZero(nodes[k].FirstSuccess)
       /\ ~IsZero(nodes[k].LastAttempt)
       /\ nodes[k].LastSeen > nodes[k].FirstSuccess


(***************************************************************************)
(* The calls of the Manager's methods, the reading ones included: each     *)
(* writer as one step under mtx.Lock, Addresses and GoodAddresses from     *)
(* mtx.RLock to mtx.RUnlock.                                               *)
(***************************************************************************)
ReadCalls == {"Addresses", "GoodAddresses"}

\* Addresses, GoodAddresses: m.mtx.RLock().
ReadCall(t) ==
    /\ t \notin mtx.readers
    /\ CanRLock(mtx)
    /\ mtx' = [mtx EXCEPT !.readers = @ \cup {t}]
    /\ logged' = NoLine
    /\ UNCHANGED <<nodes, now, ticks, goods, firstGood, quit, stop, handler, disk>>

\* Addresses, GoodAddresses: the loop over m.nodes, m.mtx.RUnlock() and the
\* return of the slice.
ReadReturn(t) ==
    /\ t \in mtx.readers
    /\ mtx' = [mtx EXCEPT !.readers = @ \ {t}]
    /\ logged' = NoLine
    /\ UNCHANGED <<nodes, now, ticks, goods, firstGood, quit, stop, handler, disk>>

\* The writers wait for mtx.Lock while a reader holds the mutex.
NextCalls ==
    \/ Next /\ (CanLock(mtx) \/ UNCHANGED nodes)
    \/ \E t \in ReadCalls : ReadCall(t) /\ UNCHANGED cvars
    \/ \E t \in ReadCalls : ReadReturn(t) /\ UNCHANGED cvars

SpecCalls == Init /\ [][NextCalls]_vars

(***************************************************************************)
(* Properties of the fields each call writes.                              *)
(***************************************************************************)
NodeFields == {"IP", "Services", "LastAttempt", "LastSuccess", "FirstSuccess",
               "LastSeen", "ProtocolVersion"}

\* The entry under k is stored after the step as before it, but for the
\* fields F.
KeptBut(k, F) ==
    /\ k \in DOMAIN nodes'
    /\ \A f \in NodeFields \ F : nodes'[k][f] = nodes[k][f]

\* Every stored entry is kept whole, but for the fields F of the entries
\* under the keys K.
Frame(K, F) ==
    \A k \in DOMAIN nodes : KeptBut(k, IF k \in K THEN F ELSE {})

C35_EmptyBatchSleepsElseOneProbeEach ==
    /\ [][AsksAddresses =>
             /\ probes = <<>>
             /\ DOMAIN probes' \in AddressesResults(nodes, now)
             /\ \A ip \in DOMAIN probes' : probes'[ip] = NewProbe
             /\ crawl' = IF DOMAIN probes' = {} THEN "sleeping" ELSE "waiting"]_vars
    /\ [][crawl = "sleeping" =>
             /\ probes = <<>> /\ probes' = <<>>
             /\ \/ crawl' = "sleeping"
                \/ crawl' = "top"
                \/ crawl' = "returned" /\ ctxDone]_vars
    /\ [](crawl = "sleeping" /\ ctxDone => ENABLED CrawlSleepCancelled)

\* The driver sleeps on a registry that has entries, none of them stale,
\* and the context is cancelled during the sleep.
C35_Witness ==
    /\ crawl = "sleeping"
    /\ ctxDone
    /\ \E k \in DOMAIN nodes : ~IsZero(nodes[k].LastSuccess)


(***************************************************************************)
(* Properties of a failed probe within its batch.                          *)
(***************************************************************************)
\* The addresses the registry can hold, so the ones a probe can be of.
Probed == {Google4, Google6}

\* The probe of ip fails in the step at peer.NewOutboundPeer.
NewPeerFails(ip) == probes[ip].pc = "Idle" /\ probes'[ip].pc = "Done"

\* The probe of ip is returning from a dial or a handshake that failed.
HasFailed(ip) ==
    /\ ip \in DOMAIN probes
    /\ probes[ip].pc \in {"Disconnecting", "Attempting"}
    /\ ~probes[ip].good

\* C36: the step in which the probe of an address fails leaves every other
\* probe, the driver and the context as they are; a probe is gone only
\* when it has reached its end; and when a probe has failed, the time
\* comes when no probe of the batch is in flight and crawler.run is out of
\* wg.Wait, at its next Addresses call, or has returned because the context
\* was cancelled meanwhile.
C36_FailureStaysInProbe ==
    /\ [][\A x \in AddrPorts :
             Probing(x) /\ (Fails(x) \/ NewPeerFails(x)) =>
                /\ \A y \in DOMAIN probes \ {x} :
                      y \in DOMAIN probes' /\ probes'[y] = probes[y]
                /\ crawl' = crawl
                /\ ctxDone' = ctxDone]_vars
    /\ [][\A y \in DOMAIN probes \ DOMAIN probes' : probes[y].pc = "Done"]_vars
    /\ (\E x \in Probed : HasFailed(x))
          ~> (InFlight = {} /\ (crawl = "checked" \/ crawl = "returned"))

\* One probe of a batch of two has failed at the dial while the other is
\* waiting for the handshake.
C36_Witness ==
    \E x \in DOMAIN probes, y \in DOMAIN probes :
       /\ x # y
       /\ HasFailed(x)
       /\ probes[x].conn = "none"
       /\ probes[y].pc = "Handshaking"


(***************************************************************************)
(* Properties of the two queries taken together.                           *)
(***************************************************************************)
\* C37: no stored node qualifies for Addresses and, with no filter, for
\* GoodAddresses at the same instant, and no reply of the one has an address
\* of a reply of the other; the batch crawler.run starts has no address
\* GoodAddresses returns at that instant; and a node qualifies for
\* GoodAddresses only from a Good call of it until the stale timeout after
\* that call.
C37_TestedOrAdvertisedNeverBoth ==
    /\ [](NeedTest \cap AreGood = {})
    /\ [](\A R \in AddressesResults(nodes, now) :
          \A G \in GoodAddressesResults(nodes, now, 0, 0, 0) :
             {AddrPortString(ip) : ip \in R} \cap {e.Host : e \in G} = {})
    /\ [](\A k \in AreGood :
             /\ k \in DOMAIN goods
             /\ goods[k].last.t <= now
             /\ now - goods[k].last.t < defaultStaleTimeout)
    /\ [][AsksAddresses =>
             \A ip \in DOMAIN probes' : AddrPortString(ip) \notin AreGood]_vars

\* A probe of one peer is in flight while GoodAddresses returns another.
C37_Witness ==
    /\ AreGood # {}
    /\ \E ip \in InFlight : AddrPortString(ip) \notin AreGood
    /\ \E k \in DOMAIN nodes : k \notin AreGood /\ k \notin NeedTest


\* C38: every entry GoodAddresses returns, whatever the filters, is of a
\* node whose FirstSuccess is earlier than its LastSuccess: two different
\* Good calls found the node stored, the first, which set FirstSuccess, at
\* least the stale timeout ago, the last, which set LastSuccess, less than
\* the stale timeout ago.
C38_ReturnedHadTwoGoodCalls ==
    \A f \in Filters : \A R \in GoodReplies(f) : \A e \in R :
        LET k == e.Host
        IN /\ k \in DOMAIN nodes /\ k \in DOMAIN goods
           /\ nodes[k].FirstSuccess < nodes[k].LastSuccess
           /\ goods[k].first = nodes[k].FirstSuccess
           /\ goods[k].last.t = nodes[k].LastSuccess
           /\ now - goods[k].first >= defaultStaleTimeout
           /\ now - goods[k].last.t < defaultStaleTimeout
           /\ now >= goods[k].last.t

\* GoodAddresses returns, under a filter on the services, a node first good
\* nine hours ago and good again now.
C38_Witness ==
    \E R \in GoodReplies([ipversion |-> 6, pver |-> 8, services |-> SFNodeCF]) :
       \E e \in R :
          /\ nodes[e.Host].FirstSuccess = StartTime
          /\ nodes[e.Host].LastSuccess = StartTime + 9
          /\ now = StartTime + 9


(***************************************************************************)
(* Properties of the probes of one address.                                *)
(***************************************************************************)
\* The goroutine of ip is started in the step.
Started(ip) ==
    /\ ip \in DOMAIN probes'
    /\ probes'[ip].pc = "Idle"
    /\ ip \in DOMAIN probes => probes[ip].pc # "Idle"

\* C39: the stored nodes have different addresses, so the slice Addresses
\* returns has as many addresses as nodes chosen, all different; a testPeer
\* goroutine for an address is started only by the step that calls
\* Addresses, and at that step no goroutine is in flight, of that address or
\* of another: two probes of one address never run at the same time.
C39_OneProbePerAddress ==
    /\ [](\A j \in DOMAIN nodes, k \in DOMAIN nodes :
             nodes[j].IP = nodes[k].IP => j = k)
    /\ [](\A R \in AddressesResults(nodes, now) :
             Cardinality(R) = Capped(Cardinality(NeedTest)))
    /\ [][\A ip \in AddrPorts :
             Started(ip) => /\ AsksAddresses
                            /\ InFlight = {}
                            /\ ip \notin DOMAIN probes]_vars

\* A batch of two probes in flight, of two peers that were both probed in
\* an earlier batch.
C39_Witness ==
    /\ Cardinality(InFlight) = 2
    /\ \A ip \in InFlight :
          /\ AddrPortString(ip) \in DOMAIN nodes
          /\ ~IsZero(nodes[AddrPortString(ip)].LastAttempt)


(***************************************************************************)
(* Properties of the stored keys.                                          *)
(***************************************************************************)
\* C40: from the empty registry on, every stored node has a routable
\* address that is not an IPv4-mapped one and is stored under the string of
\* its own address and port; Attempt and Good keep the set of keys,
\* AddAddresses removes none, and a key goes only by a prunePeers.
C40_StoredAreRoutableUnderOwnKey ==
    /\ [](\A k \in DOMAIN nodes :
             /\ isRoutable(nodes[k].IP.addr)
             /\ ~Is4In6(nodes[k].IP.addr)
             /\ k = AddrPortString(nodes[k].IP))
    /\ [][/\ \A a \in AddrPorts : Attempt(a) => DOMAIN nodes' = DOMAIN nodes
          /\ \A a \in AddrPorts, r \in PeerReports :
                Good(a, r.services, r.pver) => DOMAIN nodes' = DOMAIN nodes
          /\ \A b \in Batches : AddAddresses(b) => DOMAIN nodes \subseteq DOMAIN nodes'
          /\ ~(DOMAIN nodes \subseteq DOMAIN nodes') =>
                /\ logged'.line = "Pruned"
                /\ \A k \in DOMAIN nodes \ DOMAIN nodes' :
                      ~IsZero(nodes[k].LastAttempt)]_vars

\* After calls of all four kinds a prunePeers has removed a node and left
\* another, an IPv6 one that was good.
C40_Witness ==
    /\ logged.line = "Pruned"
    /\ logged.count > 0
    /\ \E k \in DOMAIN nodes :
          /\ Is6(nodes[k].IP.addr)
          /\ ~IsZero(nodes[k].FirstSuccess)
          /\ ~IsZero(nodes[k].LastAttempt)
=============================================================================
